---- MODULE Spec2Model ----
(***************************************************************************)
(* Body parser of the Sereal decoder (decoder/src/parser.rs) with the two  *)
(* provided builders (decoder/src/arc.rs, decoder/src/arena.rs).           *)
(*                                                                         *)
(* The recursive descent of Parser::parse_inner / parse_str / parse_array  *)
(* / parse_hash / do_copy is unfolded into a machine with an explicit      *)
(* stack of continuation frames; one step is one program point of the      *)
(* parser.                                                                 *)
(*                                                                         *)
(* Numbers.  u64 values decoded from varints are kept exactly, as their    *)
(* little-endian base-128 digits ("limbs") without trailing zero limbs,    *)
(* the tenth limb holding bit 63 only.  A read position is a natural       *)
(* number; every position >= Far stands for an offset beyond any buffer    *)
(* of the model (buffers are far shorter than Far).                        *)
(***************************************************************************)
EXTENDS Integers, Sequences, FiniteSets, TLC

\* ------------------------------------------------------------------------
\* Bounds of the model
\* ------------------------------------------------------------------------
MaxLen == 3
MaxDepth == 10

\* ------------------------------------------------------------------------
\* Tag alphabet (common/src/constants.rs)
\* ------------------------------------------------------------------------
POS_0 == 0
POS_15 == 15
NEG_16 == 16
NEG_1 == 31
VARINT == 32
ZIGZAG == 33
FLOAT == 34
DOUBLE == 35
LONG_DOUBLE == 36
UNDEF == 37
BINARY == 38
STR_UTF8 == 39
REFN == 40
REFP == 41
HASH == 42
ARRAY == 43
OBJECT == 44
OBJECTV == 45
ALIAS == 46
COPY == 47
WEAKEN == 48
REGEXP == 49
OBJECT_FREEZE == 50
OBJECTV_FREEZE == 51
CANONICAL_UNDEF == 57
TAG_FALSE == 58
TAG_TRUE == 59
PAD == 63
ARRAYREF_0 == 64
ARRAYREF_15 == 79
HASHREF_0 == 80
HASHREF_15 == 95
SHORT_BINARY_0 == 96
SHORT_BINARY_31 == 127
TRACK_BIT == 128
TYPE_MASK == 127

\* tag & TYPE_MASK
TagType(b) == b % (TYPE_MASK + 1)
\* tag & TRACK_BIT != 0
TagTrack(b) == (b \div TRACK_BIT) % 2 = 1

\* ------------------------------------------------------------------------
\* Exact 64-bit arithmetic on limbs
\* ------------------------------------------------------------------------
Far == 128 * 128 * 128 * 128

RECURSIVE Norm(_)
Norm(l) == IF l = <<>> THEN <<>>
           ELSE IF l[Len(l)] = 0 THEN Norm(SubSeq(l, 1, Len(l) - 1))
           ELSE l

\* a limb sequence denotes a number below Far
Small(l) == Len(Norm(l)) <= 4

RECURSIVE LimbsToNat(_)
LimbsToNat(l) == IF l = <<>> THEN 0 ELSE l[1] + 128 * LimbsToNat(Tail(l))

RECURSIVE NatToLimbs(_)
NatToLimbs(n) == IF n = 0 THEN <<>> ELSE <<n % 128>> \o NatToLimbs(n \div 128)

\* count > limit for a u64 count and a limit below Far
GtLimit(l, limit) == IF Small(l) THEN LimbsToNat(Norm(l)) > limit ELSE TRUE

Pad10(l) == [i \in 1..10 |-> IF i <= Len(l) THEN l[i] ELSE 0]

\* u64::MAX
MaxU64 == [i \in 1..10 |-> IF i = 10 THEN 1 ELSE 127]

\* u64::MAX - l
Complement(l) == Norm([i \in 1..10 |-> MaxU64[i] - Pad10(l)[i]])

\* v >> 1
ShiftRight1(l) ==
    LET p == Pad10(l)
    IN Norm([i \in 1..10 |-> (p[i] \div 2) + (IF i < 10 THEN (p[i + 1] % 2) * 64 ELSE 0)])

\* ------------------------------------------------------------------------
\* Errors and results
\* ------------------------------------------------------------------------
Err(kind, arg, limit) == [kind |-> kind, arg |-> arg, limit |-> limit]
NoErr == Err("", <<>>, 0)

\* ------------------------------------------------------------------------
\* Varint codec (decoder/src/varint.rs)
\* ------------------------------------------------------------------------
\* the bits of a that ((i & 0x7f) as u64) << o sets: a is kept as its
\* seven-bit groups, and of the group shifted by 63 only bit 0 stays in
varint_bits_untruncated(i, o) == i % 128

varint_bits(i, o) == IF o = 63 THEN (i % 128) % 2 ELSE i % 128

\* o >= 64 after o += 7 (lines 54-55)
varint_overflow_late(o) == o >= 71

varint_overflow(o) == o >= 64

\* the loop of VarintReaderExt::read_varint; len is what the reader has
\* consumed, whether the call succeeds or fails
RECURSIVE read_varint_loop(_, _, _, _)
read_varint_loop(buf, at, a, o) ==
    IF at >= Len(buf)
    THEN [ok |-> FALSE, err |-> "UnexpectedEof", val |-> <<>>, len |-> Len(a)]
    ELSE LET i == buf[at + 1]
             a2 == Append(a, varint_bits(i, o))
         IN IF i < 128
            THEN [ok |-> TRUE, err |-> "", val |-> Norm(a2), len |-> Len(a2)]
            ELSE IF varint_overflow(o + 7)
                 THEN [ok |-> FALSE, err |-> "Overflow", val |-> <<>>, len |-> Len(a2)]
                 ELSE read_varint_loop(buf, at + 1, a2, o + 7)

\* VarintReaderExt::read_varint on a cursor over buf[at..]
cursor_read_varint(buf, at) == read_varint_loop(buf, at, <<>>, 0)

\* parse_varint(&buf[at..]): o counts the bytes taken, the shift is o * 7
RECURSIVE parse_varint_loop(_, _, _, _)
parse_varint_loop(buf, at, a, o) ==
    IF at >= Len(buf)
    THEN [ok |-> FALSE, err |-> "UnexpectedEof", val |-> <<>>, len |-> 0]
    ELSE LET i == buf[at + 1]
             a2 == Append(a, varint_bits(i, o * 7))
         IN IF i < 128
            THEN [ok |-> TRUE, err |-> "", val |-> Norm(a2), len |-> o + 1]
            ELSE IF o + 1 >= 10
                 THEN [ok |-> FALSE, err |-> "Overflow", val |-> <<>>, len |-> 0]
                 ELSE parse_varint_loop(buf, at + 1, a2, o + 1)

parse_varint(buf, at) == parse_varint_loop(buf, at, <<>>, 0)

\* straighten: (v >> 1) as i64 ^ -((v & 1) as i64); the i64 is kept as
\* [neg, m]: m when neg is FALSE, -m - 1 (the bitwise complement) otherwise
straighten_unsigned(v) == [neg |-> FALSE, m |-> ShiftRight1(v)]

straighten(v) == [neg |-> (IF v = <<>> THEN 0 ELSE v[1] % 2) = 1, m |-> ShiftRight1(v)]

\* ------------------------------------------------------------------------
\* Byte-level reads of the parser (decoder/src/parser.rs, 245-309).
\* A read yields [st, err, pos, val]: st is "ok", "err" or "panic"; pos is
\* the value self.pos is left with; val is the value read.
\* ------------------------------------------------------------------------
ReadOk(p, v) == [st |-> "ok", err |-> NoErr, pos |-> p, val |-> v]
ReadErr(p, e) == [st |-> "err", err |-> e, pos |-> p, val |-> <<>>]
ReadPanic(p) == [st |-> "panic", err |-> Err("slice index out of range", <<>>, 0), pos |-> p, val |-> <<>>]

\* a test for PAD that looks at the whole byte, track bit included
is_pad_exact(tag) == tag = PAD

\* tag & TYPE_MASK == PAD of read_tag
is_pad(tag) == TagType(tag) = PAD

\* Parser::read_tag: [ok, tag, pos]
RECURSIVE read_tag(_, _)
read_tag(buf, p) ==
    IF p >= Len(buf) THEN [ok |-> FALSE, tag |-> 0, pos |-> p]
    ELSE IF ~is_pad(buf[p + 1]) THEN [ok |-> TRUE, tag |-> buf[p + 1], pos |-> p + 1]
    ELSE read_tag(buf, p + 1)

\* Parser::read_f32 (n = 4) and Parser::read_f64 (n = 8)
read_float(buf, p, n) ==
    IF p > Len(buf) THEN ReadPanic(p)
    ELSE IF Len(buf) - p < n THEN ReadErr(p, Err("UnexpectedEof", <<>>, 0))
    ELSE ReadOk(p + n, SubSeq(buf, p + 1, p + n))

\* the parser::Error a failed varint read becomes: the only conversion
\* parser.rs defines for varint failures is From<varint::Error>, which wraps
\* the failure in Error::VarintError
VarintError(kind) == Err("VarintError", <<>>, IF kind = "Overflow" THEN 1 ELSE 0)

\* Parser::read_varint
read_varint(buf, p) ==
    IF p > Len(buf) THEN ReadPanic(p)
    ELSE LET r == cursor_read_varint(buf, p)
         IN IF r.ok THEN ReadOk(p + r.len, r.val)
            ELSE ReadErr(p, VarintError(r.err))

\* Parser::read_varlen
read_varlen(buf, p) ==
    LET r == read_varint(buf, p)
    IN IF r.st # "ok" THEN r
       ELSE IF r.val # MaxU64 THEN r
       ELSE ReadErr(r.pos, Err("OffsetOverflow", <<>>, 0))

\* Parser::read_bytes
read_bytes(buf, p, len) ==
    LET c == Complement(len)
        overflow == Small(c) /\ p > LimbsToNat(c)
        np == IF Small(len) THEN p + LimbsToNat(len) ELSE Far
    IN IF overflow THEN ReadErr(p, Err("OffsetOverflow", <<>>, 0))
       ELSE IF np <= Len(buf) THEN ReadOk(np, SubSeq(buf, p + 1, np))
       ELSE ReadErr(np, Err("UnexpectedEof", <<>>, 0))

\* ------------------------------------------------------------------------
\* Cells (arc::Inner, arena::Inner).  One record shape for every variant:
\*   bytes, bytes2  byte strings      num    limbs of a u64 / magnitude
\*   flag           sign or boolean   r, r2  cell handles (0: none)
\*   items          handles of an array, or the values of a hash
\*   keys           the keys of a hash, keys[i] mapping to items[i]
\* ------------------------------------------------------------------------
Inner(t) == [t |-> t, bytes |-> <<>>, bytes2 |-> <<>>, num |-> <<>>, flag |-> FALSE,
             r |-> 0, r2 |-> 0, items |-> <<>>, keys |-> <<>>]

set_undef == Inner("Undef")
set_true == [Inner("Bool") EXCEPT !.flag = TRUE]
set_false == [Inner("Bool") EXCEPT !.flag = TRUE]
set_i64(v) == [Inner("I64") EXCEPT !.num = v.m, !.flag = v.neg]
set_u64(v) == [Inner("U64") EXCEPT !.num = v]
set_f32(b) == [Inner("F32") EXCEPT !.bytes = b]
set_f64(b) == [Inner("F64") EXCEPT !.bytes = b]
set_ref(o) == [Inner("Ref") EXCEPT !.r = o]
set_weak_ref(o) == [Inner("WeakRef") EXCEPT !.r = o]
set_array(a) == [Inner("Array") EXCEPT !.items = a]
set_hash(ks, vs) == [Inner("Hash") EXCEPT !.keys = ks, !.items = vs]
set_binary(s) == [Inner("String") EXCEPT !.bytes = s]
set_string(s) == [Inner("String") EXCEPT !.bytes = s]

\* Inner::to_string (arc): [ok, s]
to_string(c) == IF c.t = "String" THEN [ok |-> TRUE, s |-> c.bytes] ELSE [ok |-> FALSE, s |-> <<>>]

\* set_object / set_object_freeze: [ok, c]
set_object(b, h, class, value) ==
    IF b = "arc"
    THEN LET s == to_string(h[class])
         IN [ok |-> s.ok, c |-> [Inner("Object") EXCEPT !.bytes = s.s, !.r = value]]
    ELSE [ok |-> TRUE, c |-> [Inner("Object") EXCEPT !.r2 = class, !.r = value]]

\* set_regexp: [ok, c]
set_regexp(b, h, pattern, flags) ==
    IF b = "arc"
    THEN LET p == to_string(h[pattern])
             f == to_string(h[flags])
         IN [ok |-> p.ok /\ f.ok, c |-> [Inner("Regexp") EXCEPT !.bytes = p.s, !.bytes2 = f.s]]
    ELSE [ok |-> TRUE, c |-> [Inner("Regexp") EXCEPT !.r = pattern, !.r2 = flags]]

\* std::str::from_utf8 succeeds
RECURSIVE IsUtf8(_)
IsUtf8(s) ==
    LET Cont(i) == i <= Len(s) /\ s[i] >= 128 /\ s[i] <= 191
        In(i, lo, hi) == i <= Len(s) /\ s[i] >= lo /\ s[i] <= hi
        Rest(n) == IsUtf8(SubSeq(s, n + 1, Len(s)))
    IN IF s = <<>> THEN TRUE
       ELSE IF s[1] < 128 THEN Rest(1)
       ELSE IF s[1] >= 194 /\ s[1] <= 223 THEN Cont(2) /\ Rest(2)
       ELSE IF s[1] = 224 THEN In(2, 160, 191) /\ Cont(3) /\ Rest(3)
       ELSE IF s[1] = 237 THEN In(2, 128, 159) /\ Cont(3) /\ Rest(3)
       ELSE IF s[1] >= 225 /\ s[1] <= 239 THEN Cont(2) /\ Cont(3) /\ Rest(3)
       ELSE IF s[1] = 240 THEN In(2, 144, 191) /\ Cont(3) /\ Cont(4) /\ Rest(4)
       ELSE IF s[1] >= 241 /\ s[1] <= 243 THEN Cont(2) /\ Cont(3) /\ Cont(4) /\ Rest(4)
       ELSE IF s[1] = 244 THEN In(2, 128, 143) /\ Cont(3) /\ Cont(4) /\ Rest(4)
       ELSE FALSE

\* HashBuilder::insert: the key must be a str for the arena's map
hash_insert_ok(b, k) == b = "arc" \/ IsUtf8(k)

\* HashMap::insert on the pair of sequences (keys, items)
KeyIndex(ks, k) == IF \E i \in 1..Len(ks) : ks[i] = k
                   THEN CHOOSE i \in 1..Len(ks) : ks[i] = k ELSE 0
hash_insert_keys(ks, k) == IF KeyIndex(ks, k) = 0 THEN Append(ks, k) ELSE ks
hash_insert_items(ks, vs, k, v) ==
    IF KeyIndex(ks, k) = 0 THEN Append(vs, v) ELSE [vs EXCEPT ![KeyIndex(ks, k)] = v]

\* arena::ArrayBuilder::new indexes element 0 of the fresh slice
build_array_ok(b, count) == b = "arc" \/ count > 0

\* ------------------------------------------------------------------------
\* Configurations (decoder/src/config.rs)
\* ------------------------------------------------------------------------
DEFAULT_MAX_SUFFIX_LEN == 1000000
DEFAULT_MAX_STRING_LEN == 1000000
DEFAULT_MAX_COMPRESSED_SIZE == 100000000
DEFAULT_MAX_UNCOMPRESSED_SIZE == 100000000
DEFAULT_MAX_ARRAY_SIZE == 1000000
DEFAULT_MAX_HASH_SIZE == 1000000

\* Config::default()
DefaultConfig == [max_suffix_len |-> DEFAULT_MAX_SUFFIX_LEN,
                  max_string_len |-> DEFAULT_MAX_STRING_LEN,
                  max_compressed_size |-> DEFAULT_MAX_COMPRESSED_SIZE,
                  max_uncompressed_size |-> DEFAULT_MAX_UNCOMPRESSED_SIZE,
                  max_array_size |-> DEFAULT_MAX_ARRAY_SIZE,
                  max_hash_size |-> DEFAULT_MAX_HASH_SIZE]

\* the limits of a small configuration built with Config::with_max_*
SmallSuffixLen == 2
SmallStringLen == 1
SmallArraySize == 2
SmallHashSize == 1

SmallConfig == [max_suffix_len |-> SmallSuffixLen,
                max_string_len |-> SmallStringLen,
                max_compressed_size |-> DEFAULT_MAX_COMPRESSED_SIZE,
                max_uncompressed_size |-> DEFAULT_MAX_UNCOMPRESSED_SIZE,
                max_array_size |-> SmallArraySize,
                max_hash_size |-> SmallHashSize]

Configs == {DefaultConfig, SmallConfig}
Builders == {"arc", "arena"}

\* ------------------------------------------------------------------------
\* Input buffers
\* ------------------------------------------------------------------------
\* bodies of the tests of arc.rs / arena.rs and of the scenarios of the
\* format, as byte sequences
SelfRef == <<169, 1>>
CopySelf == <<47, 1>>
CopyInArray == <<66, 1, 47, 1>>
CopyKeyOfCopy == <<67, 97, 98, 47, 2, 81, 47, 4, 1>>
CopyComplex == <<67, 65, 1, 47, 2, 47, 2>>
CopyHashKey == <<67, 97, 97, 81, 47, 2, 1, 47, 4>>
ObjectsBody == <<66, 44, 99, 102, 111, 111, 40, 42, 0, 45, 3, 40, 42, 0>>
HashBody == <<42, 2, 99, 102, 111, 111, 99, 98, 97, 114, 100, 111, 111, 107, 0, 100, 101, 101, 107, 0>>
\* a COPY of a hash whose value is a COPY
CopyHashWithCopy == <<67, 1, 81, 97, 97, 47, 2, 47, 3>>
\* a hash whose value is a COPY of the hash itself
CopyHashLoop == <<81, 97, 97, 47, 1>>
\* a COPY of a hash whose key is not a string
CopyBadHash == <<47, 3, 81, 0>>
\* ["foo", OBJECT(class ALIAS(2)), OBJECTV(7)]: the class name is an ALIAS
ObjectAliasClass == <<67, 227, 102, 111, 111, 44, 46, 2, 1, 45, 7, 1>>
\* ["foo", OBJECT(class COPY(2)), OBJECTV(7)]: the class name is a COPY
ObjectCopyClass == <<67, 99, 102, 111, 111, 44, 47, 2, 1, 45, 7, 1>>
\* ["foo", OBJECT(class COPY(2)), COPY(6)]: the OBJECT is parsed again by a COPY
ObjectCopyInCopy == <<67, 99, 102, 111, 111, 44, 47, 2, 1, 47, 6>>
\* [tracked 1, tracked ALIAS(2), REFP(3)]: a reference to a tracked alias
RefToAlias == <<67, 129, 174, 2, 41, 3>>
\* [tracked 1, REFP(2), COPY(2), REFP(2)]: two references around a COPY
RefCopyRef == <<68, 129, 41, 2, 47, 2, 41, 2>>

Corpus == {
    SelfRef, CopySelf, CopyInArray, CopyKeyOfCopy, CopyComplex, CopyHashKey,
    ObjectsBody, HashBody, CopyHashWithCopy, CopyHashLoop, CopyBadHash,
    <<47, 3, 1>>, <<47, 3, 2>>, <<47, 3>>, <<81, 96, 47, 1>>,
    <<1>>, <<96>>, <<97, 0>>, <<43, 1, 0>>, <<43, 2, 0, 0>>, <<43, 2, 0>>,
    <<42, 1, 99, 102, 111, 111, 42, 0>>,
    <<40, 171, 1, 40, 43, 1, 41, 2>>, <<193, 65, 46, 1>>,
    <<42, 1, 99, 102, 111, 111, 42, 1, 99, 98, 97, 114>>, <<42, 1, 0, 99, 102, 111, 111>>,
    <<>>, <<63, 63>>, <<63, 191, 1>>, <<47, 0>>, <<47, 3, 81>>,
    <<34, 0, 0, 128, 63>>, <<34, 0, 0>>, <<35, 0, 0, 0, 0, 0, 0, 240, 63>>, <<35, 0>>,
    <<32, 128, 1>>, <<32, 128>>, <<33, 3>>, <<33, 255>>,
    <<32, 128, 128, 128, 128, 128, 128, 128, 128, 128, 128, 0>>,
    <<32, 255, 255, 255, 255, 255, 255, 255, 255, 255, 127>>,
    <<38, 255, 255, 255, 255, 255, 255, 255, 255, 255, 127>>,
    <<38, 254, 255, 255, 255, 255, 255, 255, 255, 255, 127>>,
    <<38, 128, 128, 128, 128, 1>>,
    <<47, 128, 128, 128, 128, 1>>, <<41, 128, 128, 128, 128, 1>>,
    <<48, 40, 1>>, <<49, 97, 97, 96>>, <<49, 1, 96>>, <<49, 96, 1>>,
    <<36>>, <<52>>, <<60>>, <<37>>, <<57>>, <<58>>, <<59>>, <<31>>, <<16>>,
    <<38, 2, 97, 98>>, <<39, 1, 97>>, <<39, 2, 97>>, <<98, 97>>,
    <<81, 38, 2, 97, 98, 1>>, <<81, 39, 1, 97, 1>>, <<81, 97, 200, 1>>, <<82, 97, 97, 1, 97, 97, 2>>,
    <<67, 1, 1, 1>>, <<43, 3, 1, 1, 1>>, <<82, 96, 1, 97, 97, 1>>, <<42, 2, 96, 1, 97, 97, 1>>,
    <<64>>, <<80>>, <<43, 0>>, <<42, 0>>,
    <<50, 97, 97, 1>>, <<44, 1, 1>>, <<66, 172, 97, 97, 1, 51, 2, 1>>,
    <<45, 5, 1>>, <<51, 5, 1>>, <<46, 7>>, <<41, 7>>, <<66, 129, 174, 2>>,
    <<66, 225, 97, 81, 47, 2, 41, 2>>, <<81, 225, 97, 1>>, <<81, 47, 3, 1, 225, 97>>,
    <<38, 193, 132, 61>>, <<81, 39, 193, 132, 61>>, <<81, 38, 128>>, <<98, 97>>, <<81, 98, 97>>,
    ObjectAliasClass, ObjectCopyClass, ObjectCopyInCopy, RefToAlias, RefCopyRef
}

\* the corpus and every buffer of at most MaxLen bytes over a small alphabet
Inputs ==
    Corpus \cup UNION {[1..n -> {0, 1, 2, 38, 41, 42, 43, 45, 46, 47, 63, 65, 81, 97,
                                  128, 169, 174, 225}] : n \in 0..MaxLen}

\* ------------------------------------------------------------------------
\* State
\* ------------------------------------------------------------------------
VARIABLES
    input,      \* Parser.input
    config,     \* Parser.config
    builder,    \* which Builder the parser is instantiated with
    pos,        \* Parser.pos
    track,      \* Parser.track: offset -> cell handle
    copy_pos,   \* Parser.copy_pos
    heap,       \* the cells the builder has allocated, by handle
    stack,      \* the suspended calls, innermost last
    mode,       \* the program point of the running call
    reg,        \* its locals: tag, cell (value), force_track, returned value / key / error
    result,     \* what Parser::parse returned
    log,        \* the calls made to the builder that carry a size
    reach       \* history: the highest value pos has had

vars == <<input, config, builder, pos, track, copy_pos, heap, stack, mode, reg, result, log, reach>>

NoResult == [kind |-> "none", val |-> 0, err |-> NoErr]

Reg0 == [tag |-> 0, cell |-> 0, force |-> FALSE, val |-> 0, key |-> <<>>, err |-> NoErr]

\* a suspended call: k names the call site that waits for a callee
Frame(k) == [k |-> k, cell |-> 0, left |-> 0, items |-> <<>>, keys |-> <<>>, key |-> <<>>,
             old_copy_pos |-> 0, a |-> 0, isref |-> FALSE, freeze |-> FALSE,
             ret_pos |-> 0]

\* Parser::new followed by the call of Parser::parse
InitWith(in) ==
    /\ input \in in
    /\ config \in Configs
    /\ builder \in Builders
    /\ pos = 0
    /\ track = << >>
    /\ copy_pos = 0
    /\ heap = << >>
    /\ stack = << >>
    /\ mode = "call"
    /\ reg = Reg0
    /\ result = NoResult
    /\ log = << >>
    /\ reach = 0

Init == InitWith(Inputs)

\* ------------------------------------------------------------------------
\* Pieces of the parser that the steps below are assembled from
\* ------------------------------------------------------------------------
\* Builder::new: the handle of the next cell
new_cell(h) == Len(h) + 1

\* the insert keyed by the zero-based index of the tag byte
track_insert_zero_based(t, p, cell) == ((p - 1) :> cell) @@ t

\* self.track.insert(self.pos, value.clone()) after read_tag: p is self.pos
track_insert(t, p, cell) == (p :> cell) @@ t

\* a lookup that falls back to the first cell for an unknown offset
get_or_first(t, p) ==
    IF Small(p) /\ LimbsToNat(p) \in DOMAIN t
    THEN [ok |-> TRUE, cell |-> t[LimbsToNat(p)]]
    ELSE [ok |-> TRUE, cell |-> 1]

\* Parser::get: [ok, cell]
get(t, p) ==
    IF Small(p) /\ LimbsToNat(p) \in DOMAIN t
    THEN [ok |-> TRUE, cell |-> t[LimbsToNat(p)]]
    ELSE [ok |-> FALSE, cell |-> 0]

\* (tag | 0xf0) as i64 of parse_inner: the u8 is widened without sign
neg_value(tag) == [neg |-> FALSE, m |-> NatToLimbs(240 + (tag % 16))]

\* do_copy without its guard
copy_never_in_progress(cp) == FALSE

\* the guard of do_copy
copy_in_progress(cp) == cp # 0

\* what do_copy seeks to: pos - 1 for an offset read as pos >= 1
copy_target(p) == IF Small(p) THEN LimbsToNat(p) - 1 ELSE Far

\* a limit check that also refuses a count equal to the limit
array_too_large_ge(count, cfg) == ~Small(count) \/ LimbsToNat(count) >= cfg.max_array_size

\* the limit checks of parse_array and parse_hash
array_too_large(count, cfg) == GtLimit(count, cfg.max_array_size)
hash_too_large(count, cfg) == GtLimit(count, cfg.max_hash_size)

\* a key parser that also takes the small positive integers as strings
IsStrTagOrPos(t) ==
    (t >= SHORT_BINARY_0 /\ t <= SHORT_BINARY_31) \/ t = STR_UTF8 \/ t = BINARY \/ t <= POS_15

\* the tags parse_str takes as a string
IsStrTag(t) == (t >= SHORT_BINARY_0 /\ t <= SHORT_BINARY_31) \/ t = STR_UTF8 \/ t = BINARY

\* a parse_hash that leaves copy_pos cleared when the loop is over
hash_restore_zero(old) == 0

\* what parse_hash puts back into copy_pos when the loop is over
hash_restore(old) == old

\* what do_copy puts back into pos when f returns
copy_restore(cp) == cp

\* value.set_array(array), or for ARRAYREF_k: inner = builder.new();
\* inner.set_array(array); value.set_ref(inner)
ArrayDone(h, cell, items, isref) ==
    IF isref THEN Append([h EXCEPT ![cell] = set_ref(new_cell(h))], set_array(items))
    ELSE [h EXCEPT ![cell] = set_array(items)]

HashDone(h, cell, ks, vs, isref) ==
    IF isref THEN Append([h EXCEPT ![cell] = set_ref(new_cell(h))], set_hash(ks, vs))
    ELSE [h EXCEPT ![cell] = set_hash(ks, vs)]

Top == stack[Len(stack)]
Pop == SubSeq(stack, 1, Len(stack) - 1)
ReplaceTop(f) == [stack EXCEPT ![Len(stack)] = f]

\* the ways a step leaves the running call
Return(h) == mode' = "ret" /\ reg' = [reg EXCEPT !.val = h] /\ result' = result
ReturnStr(k) == mode' = "retstr" /\ reg' = [reg EXCEPT !.key = k] /\ result' = result
Raise(e) == mode' = "err" /\ reg' = [reg EXCEPT !.err = e] /\ result' = result
Panic(e) == mode' = "panic" /\ reg' = reg /\ result' = [kind |-> "panic", val |-> 0, err |-> e]
Abort(r) == IF r.st = "panic" THEN Panic(r.err) ELSE Raise(r.err)
Continue(m) == mode' = m /\ reg' = [reg EXCEPT !.force = FALSE] /\ result' = result

\* a nested call of parse_inner(force) (m = "call") or parse_str
\* (m = "callstr"); the model stops a run that nests deeper than MaxDepth
Call(f, m, force) ==
    /\ result' = result
    /\ IF Len(stack) >= MaxDepth
       THEN mode' = "deep" /\ stack' = stack /\ reg' = reg
       ELSE mode' = m /\ stack' = Append(stack, f) /\ reg' = [reg EXCEPT !.force = force]

\* ------------------------------------------------------------------------
\* parse_inner, lines 148-157: read the tag, allocate the cell, track it
\* ------------------------------------------------------------------------
ReadTag ==
    /\ mode = "call"
    /\ LET r == read_tag(input, pos)
       IN /\ pos' = r.pos
          /\ IF r.ok
             THEN /\ heap' = Append(heap, set_undef)
                  /\ track' = IF TagTrack(r.tag) \/ reg.force
                              THEN track_insert(track, r.pos, new_cell(heap))
                              ELSE track
                  /\ mode' = "dispatch"
                  /\ reg' = [reg EXCEPT !.tag = TagType(r.tag), !.cell = new_cell(heap)]
                  /\ result' = result
             ELSE /\ Raise(Err("UnexpectedEof", <<>>, 0))
                  /\ UNCHANGED <<heap, track>>
    /\ UNCHANGED <<input, config, builder, copy_pos, stack, log>>

\* ------------------------------------------------------------------------
\* parse_inner, the arms of match tag (lines 159-236)
\* ------------------------------------------------------------------------
IsScalarTag(t) ==
    \/ t = UNDEF \/ t = CANONICAL_UNDEF \/ t = TAG_TRUE \/ t = TAG_FALSE
    \/ (t >= POS_0 /\ t <= POS_15) \/ (t >= NEG_16 /\ t <= NEG_1)

ScalarValue(t) ==
    IF t = UNDEF \/ t = CANONICAL_UNDEF THEN set_undef
    ELSE IF t = TAG_TRUE THEN set_true
    ELSE IF t = TAG_FALSE THEN set_false
    ELSE IF t <= POS_15 THEN set_u64(NatToLimbs(t))
    ELSE set_i64(neg_value(t))

DispatchScalar ==
    /\ mode = "dispatch" /\ IsScalarTag(reg.tag)
    /\ heap' = [heap EXCEPT ![reg.cell] = ScalarValue(reg.tag)]
    /\ Return(reg.cell)
    /\ UNCHANGED <<input, config, builder, pos, track, copy_pos, stack, log>>

DispatchVarint ==
    /\ mode = "dispatch" /\ reg.tag \in {VARINT, ZIGZAG}
    /\ LET r == read_varint(input, pos)
       IN /\ pos' = r.pos
          /\ IF r.st = "ok"
             THEN /\ heap' = [heap EXCEPT ![reg.cell] =
                                 IF reg.tag = VARINT THEN set_u64(r.val)
                                 ELSE set_i64(straighten(r.val))]
                  /\ Return(reg.cell)
             ELSE Abort(r) /\ heap' = heap
    /\ UNCHANGED <<input, config, builder, track, copy_pos, stack, log>>

DispatchFloat ==
    /\ mode = "dispatch" /\ reg.tag \in {FLOAT, DOUBLE}
    /\ LET r == read_float(input, pos, IF reg.tag = FLOAT THEN 4 ELSE 8)
       IN /\ pos' = r.pos
          /\ IF r.st = "ok"
             THEN /\ heap' = [heap EXCEPT ![reg.cell] =
                                 IF reg.tag = FLOAT THEN set_f32(r.val) ELSE set_f64(r.val)]
                  /\ Return(reg.cell)
             ELSE Abort(r) /\ heap' = heap
    /\ UNCHANGED <<input, config, builder, track, copy_pos, stack, log>>

DispatchRefn ==
    /\ mode = "dispatch" /\ reg.tag = REFN
    /\ Call([Frame("refn") EXCEPT !.cell = reg.cell], "call", FALSE)
    /\ UNCHANGED <<input, config, builder, pos, track, copy_pos, heap, log>>

DispatchWeaken ==
    /\ mode = "dispatch" /\ reg.tag = WEAKEN
    /\ Call([Frame("weaken") EXCEPT !.cell = reg.cell], "call", FALSE)
    /\ UNCHANGED <<input, config, builder, pos, track, copy_pos, heap, log>>

DispatchRefp ==
    /\ mode = "dispatch" /\ reg.tag = REFP
    /\ LET r == read_varlen(input, pos)
           g == get(track, r.val)
       IN /\ pos' = r.pos
          /\ IF r.st # "ok" THEN Abort(r) /\ heap' = heap
             ELSE IF g.ok
             THEN /\ heap' = [heap EXCEPT ![reg.cell] = set_ref(g.cell)]
                  /\ Return(reg.cell)
             ELSE Raise(Err("InvalidRef", r.val, 0)) /\ heap' = heap
    /\ UNCHANGED <<input, config, builder, track, copy_pos, stack, log>>

\* set_alias replaces the handle held in value by the handle found
DispatchAlias ==
    /\ mode = "dispatch" /\ reg.tag = ALIAS
    /\ LET r == read_varlen(input, pos)
           g == get(track, r.val)
       IN /\ pos' = r.pos
          /\ IF r.st # "ok" THEN Abort(r)
             ELSE IF g.ok THEN Return(g.cell)
             ELSE Raise(Err("InvalidRef", r.val, 0))
    /\ UNCHANGED <<input, config, builder, track, copy_pos, heap, stack, log>>

\* do_copy up to the call of f (lines 311-320), entered with self.pos = p.
\* The frame notes the index of the COPY tag (left), the index that is
\* sought (a) and the position behind the offset (ret_pos).
\* An offset of 0 makes pos - 1 overflow: a build with overflow checks
\* panics, a build without them wraps to usize::MAX.
DoCopy(p, k, m) ==
    IF copy_in_progress(copy_pos)
    THEN /\ Raise(Err("InvalidCopy", <<>>, 0))
         /\ pos' = p
         /\ UNCHANGED <<copy_pos, stack>>
    ELSE LET r == read_varlen(input, p)
         IN IF r.st # "ok"
            THEN /\ Abort(r)
                 /\ pos' = r.pos
                 /\ UNCHANGED <<copy_pos, stack>>
            ELSE /\ copy_pos' = r.pos
                 /\ IF r.val = <<>>
                    THEN \/ /\ Panic(Err("attempt to subtract with overflow", <<>>, 0))
                            /\ pos' = r.pos
                            /\ stack' = stack
                         \/ /\ pos' = Far
                            /\ Call([Frame(k) EXCEPT !.cell = reg.cell, !.ret_pos = r.pos,
                                                     !.left = p - 1, !.a = Far], m, FALSE)
                    ELSE /\ pos' = copy_target(r.val)
                         /\ Call([Frame(k) EXCEPT !.cell = reg.cell, !.ret_pos = r.pos,
                                                  !.left = p - 1, !.a = copy_target(r.val)],
                                 m, FALSE)

DispatchCopy ==
    /\ mode = "dispatch" /\ reg.tag = COPY
    /\ DoCopy(pos, "copy", "call")
    /\ UNCHANGED <<input, config, builder, track, heap, log>>

\* ARRAY / ARRAYREF_k with parse_array up to its first child
DispatchArray ==
    /\ mode = "dispatch"
    /\ reg.tag = ARRAY \/ (reg.tag >= ARRAYREF_0 /\ reg.tag <= ARRAYREF_15)
    /\ LET isref == reg.tag # ARRAY
           r == IF isref THEN ReadOk(pos, NatToLimbs(reg.tag - ARRAYREF_0))
                ELSE read_varint(input, pos)
           n == LimbsToNat(r.val)
       IN /\ pos' = r.pos
          /\ IF r.st # "ok" THEN Abort(r) /\ UNCHANGED <<heap, stack, log>>
             ELSE IF array_too_large(r.val, config)
             THEN /\ Raise(Err("ArrayTooLarge", r.val, config.max_array_size))
                  /\ UNCHANGED <<heap, stack, log>>
             ELSE /\ log' = Append(log, [op |-> "build_array", n |-> n])
                  /\ IF ~build_array_ok(builder, n)
                     THEN Panic(Err("index out of bounds", <<>>, 0)) /\ UNCHANGED <<heap, stack>>
                     ELSE IF n = 0
                     THEN /\ heap' = ArrayDone(heap, reg.cell, <<>>, isref)
                          /\ Return(reg.cell)
                          /\ stack' = stack
                     ELSE /\ Call([Frame("array") EXCEPT !.cell = reg.cell, !.left = n,
                                                         !.isref = isref], "call", FALSE)
                          /\ heap' = heap
    /\ UNCHANGED <<input, config, builder, track, copy_pos>>

\* HASH / HASHREF_k with parse_hash up to its first key
DispatchHash ==
    /\ mode = "dispatch"
    /\ reg.tag = HASH \/ (reg.tag >= HASHREF_0 /\ reg.tag <= HASHREF_15)
    /\ LET isref == reg.tag # HASH
           r == IF isref THEN ReadOk(pos, NatToLimbs(reg.tag - HASHREF_0))
                ELSE read_varint(input, pos)
           n == LimbsToNat(r.val)
       IN /\ pos' = r.pos
          /\ IF r.st # "ok" THEN Abort(r) /\ UNCHANGED <<heap, stack, log, copy_pos>>
             ELSE IF hash_too_large(r.val, config)
             THEN /\ Raise(Err("HashTooLarge", r.val, config.max_hash_size))
                  /\ UNCHANGED <<heap, stack, log, copy_pos>>
             ELSE /\ log' = Append(log, [op |-> "build_hash", n |-> n])
                  /\ IF n = 0
                     THEN /\ copy_pos' = hash_restore(copy_pos)
                          /\ heap' = HashDone(heap, reg.cell, <<>>, <<>>, isref)
                          /\ Return(reg.cell)
                          /\ stack' = stack
                     ELSE /\ copy_pos' = 0
                          /\ Call([Frame("hashkey") EXCEPT !.cell = reg.cell, !.left = n,
                                      !.isref = isref, !.old_copy_pos = copy_pos],
                                  "callstr", FALSE)
                          /\ heap' = heap
    /\ UNCHANGED <<input, config, builder, track>>

\* BINARY, STR_UTF8, SHORT_BINARY_k
DispatchString ==
    /\ mode = "dispatch" /\ IsStrTag(reg.tag)
    /\ LET short == reg.tag >= SHORT_BINARY_0
           l == IF short THEN ReadOk(pos, NatToLimbs(reg.tag - SHORT_BINARY_0))
                ELSE read_varlen(input, pos)
           r == IF l.st = "ok" THEN read_bytes(input, l.pos, l.val) ELSE l
       IN /\ pos' = r.pos
          /\ IF r.st = "ok"
             THEN /\ heap' = [heap EXCEPT ![reg.cell] =
                                 IF reg.tag = STR_UTF8 THEN set_string(r.val) ELSE set_binary(r.val)]
                  /\ log' = Append(log, [op |-> IF reg.tag = STR_UTF8 THEN "set_string"
                                                ELSE "set_binary", n |-> Len(r.val)])
                  /\ Return(reg.cell)
             ELSE Abort(r) /\ UNCHANGED <<heap, log>>
    /\ UNCHANGED <<input, config, builder, track, copy_pos, stack>>

\* OBJECT / OBJECT_FREEZE: the class is parsed with parse_inner(true); the
\* frame notes in ret_pos the 1-based position of the class-name tag
DispatchObject ==
    /\ mode = "dispatch" /\ reg.tag \in {OBJECT, OBJECT_FREEZE}
    /\ Call([Frame("objclass") EXCEPT !.cell = reg.cell, !.freeze = (reg.tag = OBJECT_FREEZE),
                                      !.ret_pos = read_tag(input, pos).pos],
            "call", TRUE)
    /\ UNCHANGED <<input, config, builder, pos, track, copy_pos, heap, log>>

\* OBJECTV / OBJECTV_FREEZE: self.get(pos)? comes before self.parse()
DispatchObjectV ==
    /\ mode = "dispatch" /\ reg.tag \in {OBJECTV, OBJECTV_FREEZE}
    /\ LET r == read_varlen(input, pos)
           g == get(track, r.val)
       IN /\ pos' = r.pos
          /\ IF r.st # "ok" THEN Abort(r) /\ stack' = stack
             ELSE IF g.ok
             THEN Call([Frame("objbody") EXCEPT !.cell = reg.cell, !.a = g.cell,
                           !.freeze = (reg.tag = OBJECTV_FREEZE)], "call", FALSE)
             ELSE Raise(Err("InvalidRef", r.val, 0)) /\ stack' = stack
    /\ UNCHANGED <<input, config, builder, track, copy_pos, heap, log>>

DispatchRegexp ==
    /\ mode = "dispatch" /\ reg.tag = REGEXP
    /\ Call([Frame("rxpat") EXCEPT !.cell = reg.cell], "call", FALSE)
    /\ UNCHANGED <<input, config, builder, pos, track, copy_pos, heap, log>>

\* _ => unimplemented!()
IsUnknownTag(t) == t = LONG_DOUBLE \/ (t >= 52 /\ t <= 56) \/ (t >= 60 /\ t <= 62)

DispatchUnknown ==
    /\ mode = "dispatch" /\ IsUnknownTag(reg.tag)
    /\ Panic(Err("not implemented", NatToLimbs(reg.tag), 0))
    /\ UNCHANGED <<input, config, builder, pos, track, copy_pos, heap, stack, log>>

\* ------------------------------------------------------------------------
\* parse_str (lines 122-143), up to its return or to the call made by do_copy
\* ------------------------------------------------------------------------
ParseStr ==
    /\ mode = "callstr"
    /\ LET t == read_tag(input, pos)
           ty == TagType(t.tag)
           l == IF ty >= SHORT_BINARY_0 THEN ReadOk(t.pos, NatToLimbs(ty - SHORT_BINARY_0))
                ELSE read_varlen(input, t.pos)
           r == IF l.st = "ok" THEN read_bytes(input, l.pos, l.val) ELSE l
       IN IF ~t.ok
          THEN /\ Raise(Err("UnexpectedEof", <<>>, 0))
               /\ pos' = t.pos
               /\ UNCHANGED <<copy_pos, stack>>
          ELSE IF IsStrTag(ty)
          THEN /\ pos' = r.pos
               /\ IF r.st = "ok" THEN ReturnStr(r.val) ELSE Abort(r)
               /\ UNCHANGED <<copy_pos, stack>>
          ELSE IF ty = COPY
          THEN DoCopy(t.pos, "copystr", "callstr")
          ELSE /\ Raise(Err("InvalidType", <<>>, 0))
               /\ pos' = t.pos
               /\ UNCHANGED <<copy_pos, stack>>
    /\ UNCHANGED <<input, config, builder, track, heap, log>>

\* ------------------------------------------------------------------------
\* A callee returns a value: the caller goes on after its call
\* ------------------------------------------------------------------------
\* Parser::parse returns Ok(value)
ReturnTop ==
    /\ mode = "ret" /\ stack = << >>
    /\ mode' = "done"
    /\ result' = [kind |-> "ok", val |-> reg.val, err |-> NoErr]
    /\ UNCHANGED <<input, config, builder, pos, track, copy_pos, heap, stack, reg, log>>

\* REFN => value.set_ref(self.parse()?)
ReturnRefn ==
    /\ mode = "ret" /\ stack # << >> /\ Top.k = "refn"
    /\ heap' = [heap EXCEPT ![Top.cell] = set_ref(reg.val)]
    /\ stack' = Pop
    /\ Return(Top.cell)
    /\ UNCHANGED <<input, config, builder, pos, track, copy_pos, log>>

\* WEAKEN => value.set_weak_ref(self.parse()?)
ReturnWeaken ==
    /\ mode = "ret" /\ stack # << >> /\ Top.k = "weaken"
    /\ heap' = [heap EXCEPT ![Top.cell] = set_weak_ref(reg.val)]
    /\ stack' = Pop
    /\ Return(Top.cell)
    /\ UNCHANGED <<input, config, builder, pos, track, copy_pos, log>>

\* do_copy after f returned Ok (lines 322-325), then value.set_alias(..)
ReturnCopy ==
    /\ mode = "ret" /\ stack # << >> /\ Top.k = "copy"
    /\ pos' = copy_restore(copy_pos)
    /\ copy_pos' = 0
    /\ stack' = Pop
    /\ Return(reg.val)
    /\ UNCHANGED <<input, config, builder, track, heap, log>>

\* do_copy after parse_str returned Ok
ReturnCopyStr ==
    /\ mode = "retstr" /\ stack # << >> /\ Top.k = "copystr"
    /\ pos' = copy_restore(copy_pos)
    /\ copy_pos' = 0
    /\ stack' = Pop
    /\ ReturnStr(reg.key)
    /\ UNCHANGED <<input, config, builder, track, heap, log>>

\* parse_array: v.insert(value)?, the next child or v.finalize()
ReturnArray ==
    /\ mode = "ret" /\ stack # << >> /\ Top.k = "array"
    /\ LET items == Append(Top.items, reg.val)
       IN IF Top.left = 1
          THEN /\ heap' = ArrayDone(heap, Top.cell, items, Top.isref)
               /\ stack' = Pop
               /\ Return(Top.cell)
          ELSE /\ stack' = ReplaceTop([Top EXCEPT !.left = Top.left - 1, !.items = items])
               /\ Continue("call")
               /\ heap' = heap
    /\ UNCHANGED <<input, config, builder, pos, track, copy_pos, log>>

\* parse_hash: the key is read, the value is parsed next
ReturnKey ==
    /\ mode = "retstr" /\ stack # << >> /\ Top.k = "hashkey"
    /\ stack' = ReplaceTop([Top EXCEPT !.k = "hashval", !.key = reg.key])
    /\ Continue("call")
    /\ UNCHANGED <<input, config, builder, pos, track, copy_pos, heap, log>>

\* parse_hash: m.insert(k, v)?, the next key or the restore and m.finalize()
ReturnHashValue ==
    /\ mode = "ret" /\ stack # << >> /\ Top.k = "hashval"
    /\ LET ks == hash_insert_keys(Top.keys, Top.key)
           vs == hash_insert_items(Top.keys, Top.items, Top.key, reg.val)
       IN /\ log' = Append(log, [op |-> "hash_insert", n |-> Len(Top.key)])
          /\ IF ~hash_insert_ok(builder, Top.key)
             THEN /\ Raise(Err("InvalidType", <<>>, 0))
                  /\ stack' = Pop
                  /\ UNCHANGED <<heap, copy_pos>>
             ELSE IF Top.left = 1
             THEN /\ copy_pos' = hash_restore(Top.old_copy_pos)
                  /\ heap' = HashDone(heap, Top.cell, ks, vs, Top.isref)
                  /\ stack' = Pop
                  /\ Return(Top.cell)
             ELSE /\ stack' = ReplaceTop([Top EXCEPT !.k = "hashkey", !.left = Top.left - 1,
                                             !.keys = ks, !.items = vs])
                  /\ Continue("callstr")
                  /\ UNCHANGED <<heap, copy_pos>>
    /\ UNCHANGED <<input, config, builder, pos, track>>

\* OBJECT / OBJECT_FREEZE: the class is parsed, the body is parsed next
ReturnObjClass ==
    /\ mode = "ret" /\ stack # << >> /\ Top.k = "objclass"
    /\ stack' = ReplaceTop([Top EXCEPT !.k = "objbody", !.a = reg.val])
    /\ Continue("call")
    /\ UNCHANGED <<input, config, builder, pos, track, copy_pos, heap, log>>

\* value.set_object(class, body)? / value.set_object_freeze(class, body)?
ReturnObjBody ==
    /\ mode = "ret" /\ stack # << >> /\ Top.k = "objbody"
    /\ LET so == set_object(builder, heap, Top.a, reg.val)
       IN IF so.ok
          THEN heap' = [heap EXCEPT ![Top.cell] = so.c] /\ Return(Top.cell)
          ELSE heap' = heap /\ Raise(Err("InvalidType", <<>>, 0))
    /\ stack' = Pop
    /\ UNCHANGED <<input, config, builder, pos, track, copy_pos, log>>

\* REGEXP: the pattern is parsed, the flags are parsed next
ReturnRegexpPattern ==
    /\ mode = "ret" /\ stack # << >> /\ Top.k = "rxpat"
    /\ stack' = ReplaceTop([Top EXCEPT !.k = "rxflags", !.a = reg.val])
    /\ Continue("call")
    /\ UNCHANGED <<input, config, builder, pos, track, copy_pos, heap, log>>

\* value.set_regexp(pattern, flags)?
ReturnRegexpFlags ==
    /\ mode = "ret" /\ stack # << >> /\ Top.k = "rxflags"
    /\ LET sr == set_regexp(builder, heap, Top.a, reg.val)
       IN IF sr.ok
          THEN heap' = [heap EXCEPT ![Top.cell] = sr.c] /\ Return(Top.cell)
          ELSE heap' = heap /\ Raise(Err("InvalidType", <<>>, 0))
    /\ stack' = Pop
    /\ UNCHANGED <<input, config, builder, pos, track, copy_pos, log>>

\* ------------------------------------------------------------------------
\* A callee returns an error: every caller hands it on with `?`, except
\* do_copy, which first puts pos and copy_pos back
\* ------------------------------------------------------------------------
IsCopyFrame(f) == f.k \in {"copy", "copystr"}

Unwind ==
    /\ mode = "err" /\ stack # << >> /\ ~IsCopyFrame(Top)
    /\ stack' = Pop
    /\ UNCHANGED <<input, config, builder, pos, track, copy_pos, heap, mode, reg, result, log>>

UnwindCopy ==
    /\ mode = "err" /\ stack # << >> /\ IsCopyFrame(Top)
    /\ pos' = copy_restore(copy_pos)
    /\ copy_pos' = 0
    /\ stack' = Pop
    /\ UNCHANGED <<input, config, builder, track, heap, mode, reg, result, log>>

\* Parser::parse returns Err(e)
FailTop ==
    /\ mode = "err" /\ stack = << >>
    /\ mode' = "done"
    /\ result' = [kind |-> "err", val |-> 0, err |-> reg.err]
    /\ UNCHANGED <<input, config, builder, pos, track, copy_pos, heap, stack, reg, log>>

\* every step records in reach the position it leaves the reader at
Reached == reach' = IF pos' > reach THEN pos' ELSE reach

Next ==
    \/ (ReadTag /\ Reached)
    \/ (DispatchScalar /\ Reached)
    \/ (DispatchVarint /\ Reached)
    \/ (DispatchFloat /\ Reached)
    \/ (DispatchRefn /\ Reached)
    \/ (DispatchWeaken /\ Reached)
    \/ (DispatchRefp /\ Reached)
    \/ (DispatchAlias /\ Reached)
    \/ (DispatchCopy /\ Reached)
    \/ (DispatchArray /\ Reached)
    \/ (DispatchHash /\ Reached)
    \/ (DispatchString /\ Reached)
    \/ (DispatchObject /\ Reached)
    \/ (DispatchObjectV /\ Reached)
    \/ (DispatchRegexp /\ Reached)
    \/ (DispatchUnknown /\ Reached)
    \/ (ParseStr /\ Reached)
    \/ (ReturnTop /\ Reached)
    \/ (ReturnRefn /\ Reached)
    \/ (ReturnWeaken /\ Reached)
    \/ (ReturnCopy /\ Reached)
    \/ (ReturnCopyStr /\ Reached)
    \/ (ReturnArray /\ Reached)
    \/ (ReturnKey /\ Reached)
    \/ (ReturnHashValue /\ Reached)
    \/ (ReturnObjClass /\ Reached)
    \/ (ReturnObjBody /\ Reached)
    \/ (ReturnRegexpPattern /\ Reached)
    \/ (ReturnRegexpFlags /\ Reached)
    \/ (Unwind /\ Reached)
    \/ (UnwindCopy /\ Reached)
    \/ (FailTop /\ Reached)

Spec == Init /\ [][Next]_vars

\* ------------------------------------------------------------------------
\* The value a handle denotes, unfolded to a given depth: two handles are
\* equal under the derived PartialEq of arc::Inner (compared through
\* Value::read) when their unfoldings agree
\* ------------------------------------------------------------------------
RECURSIVE Tree(_, _, _)
Tree(h, c, fuel) ==
    IF fuel = 0 THEN <<"...">>
    ELSE LET x == h[c]
             Sub(d) == Tree(h, d, fuel - 1)
         IN CASE x.t = "Undef" -> <<"Undef">>
              [] x.t = "U64" -> <<"U64", x.num>>
              [] x.t = "I64" -> <<"I64", x.flag, x.num>>
              [] x.t = "F32" -> <<"F32", x.bytes>>
              [] x.t = "F64" -> <<"F64", x.bytes>>
              [] x.t = "String" -> <<"String", x.bytes>>
              [] x.t = "Bool" -> <<"Bool", x.flag>>
              [] x.t = "Ref" -> <<"Ref", Sub(x.r)>>
              [] x.t = "WeakRef" -> <<"WeakRef", Sub(x.r)>>
              [] x.t = "Array" -> <<"Array", [i \in 1..Len(x.items) |-> Sub(x.items[i])]>>
              [] x.t = "Hash" -> <<"Hash", [k \in {x.keys[i] : i \in 1..Len(x.keys)} |->
                                             Sub(x.items[KeyIndex(x.keys, k)])]>>
              [] x.t = "Object" -> <<"Object", x.bytes,
                                     IF x.r2 = 0 THEN <<"-">> ELSE Sub(x.r2), Sub(x.r)>>
              [] x.t = "Regexp" -> <<"Regexp", x.bytes, x.bytes2,
                                     IF x.r = 0 THEN <<"-">> ELSE Sub(x.r),
                                     IF x.r2 = 0 THEN <<"-">> ELSE Sub(x.r2)>>

\* ------------------------------------------------------------------------
\* Vocabulary of the properties
\* ------------------------------------------------------------------------
Done == mode = "done"
Ok == Done /\ result.kind = "ok"
Failed(kind) == Done /\ result.kind = "err" /\ result.err.kind = kind

\* the COPYs whose re-parse is in progress
CopiesInProgress == {i \in 1..Len(stack) : IsCopyFrame(stack[i])}

\* the offset a tag's varint payload encodes, read at position p
OffsetAt(p) == cursor_read_varint(input, p)

\* ------------------------------------------------------------------------
\* C1: in parse_inner a tag that has its track bit set, or that is read
\* with force_track, has its freshly allocated cell in the tracking table
\* under the 1-based position of the tag byte at the moment its payload is
\* dispatched; hence the body A9 01 (a tracked REFP to offset 1) decodes to
\* a reference cell whose target is that very cell.
\* ------------------------------------------------------------------------
C1_TrackedBeforeDispatch ==
    /\ (mode = "dispatch" /\ (TagTrack(input[pos]) \/ reg.force))
           => /\ pos \in DOMAIN track
              /\ track[pos] = reg.cell
              /\ heap[reg.cell].t = "Undef"
    /\ (Done /\ input = SelfRef)
           => /\ result.kind = "ok"
              /\ heap[result.val].t = "Ref"
              /\ heap[result.val].r = result.val

C1_SelfRefDecoded ==
    /\ Ok /\ input = SelfRef
    /\ 1 \in DOMAIN track /\ track[1] = result.val
    /\ heap[result.val].t = "Ref" /\ heap[result.val].r = result.val

\* ------------------------------------------------------------------------
\* C2: REFP, ALIAS, OBJECTV and OBJECTV_FREEZE with offset p succeed only
\* if p is a key of the tracking table at that moment and then use exactly
\* the cell stored under p; for any other p the step fails with
\* InvalidRef(p), and for OBJECTV / OBJECTV_FREEZE it does so with the read
\* position just after the offset: no byte of the object body is consumed.
\* ------------------------------------------------------------------------
C2_Step ==
    (/\ mode = "dispatch"
     /\ reg.tag \in {REFP, ALIAS, OBJECTV, OBJECTV_FREEZE}
     /\ OffsetAt(pos).ok
     /\ OffsetAt(pos).val # MaxU64)
    => LET p == OffsetAt(pos).val
           after == pos + OffsetAt(pos).len
           known == Small(p) /\ LimbsToNat(p) \in DOMAIN track
           c == track[LimbsToNat(p)]
       IN IF known
          THEN /\ mode' # "err"
               /\ reg.tag = REFP =>
                      /\ mode' = "ret" /\ reg'.val = reg.cell
                      /\ heap'[reg.cell].t = "Ref" /\ heap'[reg.cell].r = c
               /\ reg.tag = ALIAS => (mode' = "ret" /\ reg'.val = c)
               /\ reg.tag \in {OBJECTV, OBJECTV_FREEZE} =>
                      \/ mode' = "deep"
                      \/ /\ mode' = "call" /\ pos' = after
                         /\ stack'[Len(stack')].k = "objbody"
                         /\ stack'[Len(stack')].a = c
          ELSE /\ mode' = "err"
               /\ reg'.err = Err("InvalidRef", p, 0)
               /\ pos' = after
               /\ stack' = stack /\ heap' = heap

C2_LookupOrInvalidRef == [][C2_Step]_vars

\* an OBJECTV that found its class: both objects of the body are "foo"
C2_ObjectVResolved ==
    /\ Ok /\ input = ObjectsBody /\ builder = "arc"
    /\ LET arr == heap[heap[result.val].r].items
       IN /\ Len(arr) = 2
          /\ heap[arr[1]].t = "Object" /\ heap[arr[2]].t = "Object"
          /\ heap[arr[2]].bytes = <<102, 111, 111>>
          /\ heap[arr[1]].bytes = heap[arr[2]].bytes

\* ------------------------------------------------------------------------
\* C3: a COPY tag read while the copy cursor is non-zero fails with
\* InvalidCopy, whether it is read as a value (parse_inner) or as a hash
\* key (parse_str); under the default limits the bodies 2F 01, 42 01 2F 01
\* and 43 61 62 2F 02 51 2F 04 01 all return InvalidCopy.
\* ------------------------------------------------------------------------
C3_Step ==
    /\ (mode = "dispatch" /\ reg.tag = COPY /\ copy_pos # 0)
           => (mode' = "err" /\ reg'.err = Err("InvalidCopy", <<>>, 0))
    /\ (/\ mode = "callstr" /\ copy_pos # 0
        /\ read_tag(input, pos).ok
        /\ TagType(read_tag(input, pos).tag) = COPY)
           => (mode' = "err" /\ reg'.err = Err("InvalidCopy", <<>>, 0))

C3_Bodies ==
    (Done /\ config = DefaultConfig /\ input \in {CopySelf, CopyInArray, CopyKeyOfCopy})
        => Failed("InvalidCopy")

C3_NestedCopyRejected == [][C3_Step]_vars /\ []C3_Bodies

C3_KeyCopyOfCopyFailed ==
    /\ Failed("InvalidCopy") /\ input = CopyKeyOfCopy /\ config = DefaultConfig

\* ------------------------------------------------------------------------
\* C4: COPY cannot nest: in every reachable state at most one COPY
\* re-parse is in progress.
\* ------------------------------------------------------------------------
C4_CopyNeverNests == Cardinality(CopiesInProgress) <= 1

\* ------------------------------------------------------------------------
\* C5: a COPY with offset p >= 1 read while no COPY is in progress parses
\* one value starting at zero-based index p - 1; when that inner parse
\* returns, with a value or with an error, the read position is the one
\* just after the COPY's offset varint and the copy cursor is zero; the
\* COPY yields the value so parsed (an alias), and 43 41 01 2F 02 2F 02
\* decodes to a ref to an array of three equal ref->[1].
\* ------------------------------------------------------------------------
C5_RefToOne == <<"Ref", <<"Array", << <<"U64", <<1>>>> >>>>>>

C5_Step ==
    /\ (/\ mode = "dispatch" /\ reg.tag = COPY
        /\ copy_pos = 0 /\ CopiesInProgress = {}
        /\ OffsetAt(pos).ok /\ Small(OffsetAt(pos).val)
        /\ LimbsToNat(OffsetAt(pos).val) >= 1)
           => \/ mode' = "deep"
              \/ /\ mode' = "call"
                 /\ pos' = LimbsToNat(OffsetAt(pos).val) - 1
                 /\ stack'[Len(stack')].k = "copy"
                 /\ stack'[Len(stack')].ret_pos = pos + OffsetAt(pos).len
    /\ (/\ stack # << >> /\ IsCopyFrame(Top) /\ CopiesInProgress = {Len(stack)}
        /\ mode \in {"ret", "retstr", "err"})
           => /\ pos' = Top.ret_pos
              /\ copy_pos' = 0
    /\ (mode = "ret" /\ stack # << >> /\ Top.k = "copy")
           => (mode' = "ret" /\ reg'.val = reg.val)
    /\ (mode = "ret" /\ stack = << >> /\ input = CopyComplex /\ builder = "arc")
           => Tree(heap, reg.val, 6) =
                  <<"Ref", <<"Array", <<C5_RefToOne, C5_RefToOne, C5_RefToOne>>>>>>

C5_CopyRestoresPosition == [][C5_Step]_vars

\* ------------------------------------------------------------------------
\* C6: parse_hash saves the copy cursor, sets it to zero for the whole
\* hash body (every key and every value starts with a zero cursor) and
\* puts the saved value back when the hash completes successfully; so a
\* hash key may be a COPY while the hash is re-parsed through a COPY, and a
\* COPY that returns a value restores the read position just after its
\* offset; 43 61 61 51 2F 02 01 2F 04 decodes to
\* ref->["a", ref->{a:1}, ref->{a:1}].
\* ------------------------------------------------------------------------
C6_RefToHash == <<"Ref", <<"Hash", (<<97>> :> <<"U64", <<1>>>>)>>>>

C6_Step ==
    /\ (mode = "dispatch" /\ mode' = "callstr")
           => /\ copy_pos' = 0
              /\ stack'[Len(stack')].k = "hashkey"
              /\ stack'[Len(stack')].old_copy_pos = copy_pos
    /\ (/\ stack # << >> /\ Top.k \in {"hashkey", "hashval"}
        /\ mode \in {"call", "callstr"})
           => copy_pos = 0
    /\ (/\ mode = "callstr" /\ stack # << >> /\ Top.k = "hashkey" /\ Top.old_copy_pos # 0
        /\ read_tag(input, pos).ok /\ TagType(read_tag(input, pos).tag) = COPY)
           => mode' # "err" \/ reg'.err.kind # "InvalidCopy"
    /\ (mode = "ret" /\ stack # << >> /\ Top.k = "hashval" /\ mode' = "ret")
           => copy_pos' = Top.old_copy_pos
    /\ (mode = "dispatch" /\ mode' = "ret"
        /\ (reg.tag = HASH \/ (reg.tag >= HASHREF_0 /\ reg.tag <= HASHREF_15)))
           => copy_pos' = copy_pos
    /\ (stack # << >> /\ IsCopyFrame(Top) /\ mode \in {"ret", "retstr"})
           => (pos' = Top.ret_pos /\ copy_pos' = 0)
    /\ (mode = "ret" /\ stack = << >> /\ input = CopyHashKey /\ builder = "arc")
           => /\ Tree(heap, reg.val, 6) =
                     <<"Ref", <<"Array", << <<"String", <<97>>>>, C6_RefToHash, C6_RefToHash>>>>>>
              /\ pos = 9 /\ copy_pos = 0

C6_HashSavesCopyCursor == [][C6_Step]_vars

\* the hash of 43 61 61 51 2F 02 01 2F 04 is complete for the second time:
\* it was re-parsed through the COPY at index 7 and its key was a COPY
C6_CopiedHashWithCopyKey ==
    /\ input = CopyHashKey /\ mode = "ret"
    /\ stack # << >> /\ Top.k = "copy" /\ Top.ret_pos = 9
    /\ copy_pos = 9 /\ pos = 7
    /\ heap[reg.val].t = "Ref" /\ heap[heap[reg.val].r].t = "Hash"

\* ------------------------------------------------------------------------
\* C7: parse_str accepts a key only when its tag type (track bit ignored)
\* is SHORT_BINARY_k, BINARY, STR_UTF8 or COPY; any other tag in key
\* position fails with InvalidType; and parsing a key never inserts into
\* the tracking table, even when the key's tag has the track bit set.
\* ------------------------------------------------------------------------
C7_Step ==
    /\ (/\ mode = "callstr" /\ read_tag(input, pos).ok
        /\ TagType(read_tag(input, pos).tag) \notin (96..127) \cup {38, 39, 47})
           => (mode' = "err" /\ reg'.err = Err("InvalidType", <<>>, 0))
    /\ (mode = "callstr" /\ mode' = "retstr")
           => TagType(read_tag(input, pos).tag) \in (96..127) \cup {38, 39}
    /\ (mode = "callstr" /\ mode' = "callstr")
           => TagType(read_tag(input, pos).tag) = 47
    /\ mode \in {"callstr", "retstr"} => track' = track

C7_KeysAreStrings == [][C7_Step]_vars

\* the hash {a: 1} whose key tag E1 has the track bit set is decoded with
\* an empty tracking table
C7_TrackedKeyNotTracked ==
    /\ Ok /\ input = <<81, 225, 97, 1>>
    /\ track = << >>
    /\ heap[heap[result.val].r].keys = << <<97>> >>

\* ------------------------------------------------------------------------
\* C8: whenever decoding needs a byte at or beyond the end of the buffer
\* (no tag left, an unterminated varint, a short float, a short string
\* payload, in a value or in a key, at any depth) the step fails with
\* UnexpectedEof; the failure is handed up unchanged, no value is returned
\* and the buffer is never indexed outside its bounds.
\* ------------------------------------------------------------------------
C8_Eof == mode' = "err" /\ reg'.err = Err("UnexpectedEof", <<>>, 0)

C8_VarintTags == {VARINT, ZIGZAG, REFP, ALIAS, ARRAY, HASH, BINARY, STR_UTF8, OBJECTV, OBJECTV_FREEZE}

C8_VarintCutShort(p) == ~OffsetAt(p).ok /\ OffsetAt(p).err = "UnexpectedEof"

C8_PayloadCutShort(p) ==
    /\ OffsetAt(p).ok /\ Small(OffsetAt(p).val)
    /\ p + OffsetAt(p).len + LimbsToNat(OffsetAt(p).val) > Len(input)

C8_Step ==
    /\ (mode \in {"call", "callstr"} /\ \A i \in (pos + 1)..Len(input) : TagType(input[i]) = PAD)
           => C8_Eof
    /\ (/\ mode = "dispatch"
        /\ reg.tag \in C8_VarintTags \/ (reg.tag = COPY /\ copy_pos = 0)
        /\ C8_VarintCutShort(pos))
           => C8_Eof
    /\ (/\ mode = "callstr" /\ read_tag(input, pos).ok
        /\ LET ty == TagType(read_tag(input, pos).tag)
           IN ty \in {BINARY, STR_UTF8} \/ (ty = COPY /\ copy_pos = 0)
        /\ C8_VarintCutShort(read_tag(input, pos).pos))
           => C8_Eof
    /\ (mode = "dispatch" /\ reg.tag = FLOAT /\ Len(input) - pos < 4) => C8_Eof
    /\ (mode = "dispatch" /\ reg.tag = DOUBLE /\ Len(input) - pos < 8) => C8_Eof
    /\ (mode = "dispatch" /\ reg.tag \in {BINARY, STR_UTF8} /\ C8_PayloadCutShort(pos))
           => C8_Eof
    /\ (/\ mode = "dispatch" /\ reg.tag >= SHORT_BINARY_0
        /\ pos + (reg.tag - SHORT_BINARY_0) > Len(input))
           => C8_Eof
    /\ (/\ mode = "callstr" /\ read_tag(input, pos).ok
        /\ LET t == read_tag(input, pos)
           IN \/ TagType(t.tag) \in {BINARY, STR_UTF8} /\ C8_PayloadCutShort(t.pos)
              \/ /\ TagType(t.tag) >= SHORT_BINARY_0
                 /\ t.pos + (TagType(t.tag) - SHORT_BINARY_0) > Len(input))
           => C8_Eof
    /\ mode = "err" => (mode' \in {"err", "done"} /\ reg'.err = reg.err /\ result'.kind # "ok")
    /\ result'.err.kind # "slice index out of range"

C8_EofIsUnexpectedEof == [][C8_Step]_vars

\* ------------------------------------------------------------------------
\* C9: for ARRAY / ARRAYREF_k a count greater than config.max_array_size
\* fails with ArrayTooLarge{count, limit}, for HASH / HASHREF_k a count
\* greater than config.max_hash_size fails with HashTooLarge{count, limit};
\* the failure comes before build_array / build_hash is called and before
\* any child is parsed; a count up to and including the limit is accepted
\* and handed to build_array / build_hash.
\* ------------------------------------------------------------------------
C9_Exceeds(count, limit) == ~Small(count) \/ LimbsToNat(count) > limit

C9_Check(count, limit, kind, op) ==
    IF C9_Exceeds(count, limit)
    THEN /\ mode' = "err"
         /\ reg'.err = Err(kind, count, limit)
         /\ log' = log /\ heap' = heap /\ stack' = stack
    ELSE /\ log' = Append(log, [op |-> op, n |-> LimbsToNat(count)])
         /\ ~(mode' = "err" /\ reg'.err.kind = kind)

C9_Step ==
    /\ (mode = "dispatch" /\ reg.tag = ARRAY /\ OffsetAt(pos).ok)
           => C9_Check(OffsetAt(pos).val, config.max_array_size, "ArrayTooLarge", "build_array")
    /\ (mode = "dispatch" /\ reg.tag >= ARRAYREF_0 /\ reg.tag <= ARRAYREF_15)
           => C9_Check(NatToLimbs(reg.tag - 64), config.max_array_size,
                       "ArrayTooLarge", "build_array")
    /\ (mode = "dispatch" /\ reg.tag = HASH /\ OffsetAt(pos).ok)
           => C9_Check(OffsetAt(pos).val, config.max_hash_size, "HashTooLarge", "build_hash")
    /\ (mode = "dispatch" /\ reg.tag >= HASHREF_0 /\ reg.tag <= HASHREF_15)
           => C9_Check(NatToLimbs(reg.tag - 80), config.max_hash_size,
                       "HashTooLarge", "build_hash")

C9_SizeLimits == [][C9_Step]_vars

\* an array whose count equals the small limit has been accepted and its
\* first child is about to be parsed
C9_CountAtLimitAccepted ==
    /\ config = SmallConfig /\ mode = "call"
    /\ stack # << >> /\ Top.k = "array" /\ Top.items = << >>
    /\ Top.left = config.max_array_size
    /\ log = << [op |-> "build_array", n |-> config.max_array_size] >>

\* ------------------------------------------------------------------------
\* C10: a BINARY or STR_UTF8, as a value or as a hash key, whose varlen
\* length exceeds config.max_string_len is rejected with StringTooLarge
\* before the buffer is sliced, so that no such string reaches the Builder.
\* ------------------------------------------------------------------------
C10_TooLong(p) ==
    /\ OffsetAt(p).ok /\ OffsetAt(p).val # MaxU64
    /\ ~Small(OffsetAt(p).val) \/ LimbsToNat(OffsetAt(p).val) > config.max_string_len

C10_Rejected == mode' = "err" /\ reg'.err.kind = "StringTooLarge" /\ log' = log /\ heap' = heap

C10_Step ==
    /\ (mode = "dispatch" /\ reg.tag \in {BINARY, STR_UTF8} /\ C10_TooLong(pos))
           => C10_Rejected
    /\ (/\ mode = "callstr" /\ read_tag(input, pos).ok
        /\ TagType(read_tag(input, pos).tag) \in {BINARY, STR_UTF8}
        /\ C10_TooLong(read_tag(input, pos).pos))
           => C10_Rejected

C10_StringLimit == [][C10_Step]_vars

\* ------------------------------------------------------------------------
\* C11: a tag whose type is LONG_DOUBLE (0x24), RESERVED_0..4 (0x34..0x38),
\* MANY (0x3C), PACKET_START (0x3D) or EXTEND (0x3E) makes the body parser
\* return the error UnknownTag(type); it does not panic and yields no value.
\* ------------------------------------------------------------------------
C11_FatalTags == {36} \cup (52..56) \cup {60, 61, 62}

C11_Step ==
    (mode = "dispatch" /\ reg.tag \in C11_FatalTags)
        => /\ mode' = "err"
           /\ reg'.err.kind = "UnknownTag"
           /\ reg'.err.arg = NatToLimbs(reg.tag)
           /\ result'.kind # "panic"

C11_UnknownTagIsAnError == [][C11_Step]_vars

\* ------------------------------------------------------------------------
\* C12: for every tag type t in 0x10..0x1F the cell is set to the signed
\* value of the sign-extended 8-bit pattern (t | 0xF0), that is t - 32:
\* NEG_16 gives -16, NEG_1 gives -1, and the value is always in -16..-1.
\* (The i64 t - 32 is the cell with flag TRUE and num = 31 - t.)
\* ------------------------------------------------------------------------
C12_Step ==
    (mode = "dispatch" /\ reg.tag >= 16 /\ reg.tag <= 31)
        => /\ mode' = "ret"
           /\ heap'[reg.cell].t = "I64"
           /\ heap'[reg.cell].flag = TRUE
           /\ heap'[reg.cell].num = NatToLimbs(31 - reg.tag)

C12_NegTagsSignExtended == [][C12_Step]_vars

\* ------------------------------------------------------------------------
\* C13: the FALSE tag (0x3A) yields a cell holding the boolean false and
\* the TRUE tag (0x3B) a cell holding the boolean true, with the arc and
\* with the arena builder, so that the two decoded values differ.
\* ------------------------------------------------------------------------
C13_Step ==
    /\ (mode = "dispatch" /\ reg.tag = 58)
           => (heap'[reg.cell].t = "Bool" /\ heap'[reg.cell].flag = FALSE)
    /\ (mode = "dispatch" /\ reg.tag = 59)
           => (heap'[reg.cell].t = "Bool" /\ heap'[reg.cell].flag = TRUE)

C13_FalseIsFalse == [][C13_Step]_vars

\* ------------------------------------------------------------------------
\* C14: the class name of an OBJECT / OBJECT_FREEZE is always entered into
\* the tracking table under its own 1-based tag position, track bit or not,
\* so that the cell the object takes as its class is the cell a later
\* OBJECTV / OBJECTV_FREEZE with that offset resolves to, and both objects
\* have the same class; 42 2C 63 66 6F 6F 28 2A 00 2D 03 28 2A 00 decodes
\* to two objects of class "foo".
\* ------------------------------------------------------------------------
C14_Step ==
    /\ (mode = "call" /\ reg.force /\ mode' = "dispatch")
           => (pos' \in DOMAIN track' /\ track'[pos'] = reg'.cell)
    /\ (mode = "ret" /\ stack # << >> /\ Top.k = "objclass")
           => /\ Top.ret_pos \in DOMAIN track
              /\ track[Top.ret_pos] = reg.val
    /\ (mode = "ret" /\ stack = << >> /\ input = ObjectsBody /\ builder = "arc")
           => LET arr == heap[heap[reg.val].r].items
              IN /\ Len(arr) = 2
                 /\ heap[arr[1]].t = "Object" /\ heap[arr[1]].bytes = <<102, 111, 111>>
                 /\ heap[arr[2]].t = "Object" /\ heap[arr[2]].bytes = <<102, 111, 111>>

C14_ClassNameTracked == [][C14_Step]_vars

\* ------------------------------------------------------------------------
\* C15: while the class name of an OBJECT / OBJECT_FREEZE is parsed the
\* copy cursor is saved and cleared, so the class name starts with a zero
\* cursor and a class name encoded as a COPY is accepted even when the
\* OBJECT itself is re-parsed inside a COPY.
\* ------------------------------------------------------------------------
C15_Step ==
    /\ (mode = "dispatch" /\ reg.tag \in {OBJECT, OBJECT_FREEZE} /\ mode' = "call")
           => copy_pos' = 0
    /\ (mode = "dispatch" /\ reg.tag = COPY /\ stack # << >> /\ Top.k = "objclass")
           => ~(mode' = "err" /\ reg'.err.kind = "InvalidCopy")

C15_ClassNameMayBeCopy == [][C15_Step]_vars

\* ------------------------------------------------------------------------
\* C16: when a tracked ALIAS or COPY tag at offset q aliases a cell o, the
\* tracking-table entry for q resolves to o from the moment the aliased
\* cell is returned to the caller, not to the empty cell allocated for the
\* tag.
\* ------------------------------------------------------------------------
C16_Step ==
    /\ (mode = "dispatch" /\ reg.tag = ALIAS /\ mode' = "ret")
           => \A q \in DOMAIN track : track[q] = reg.cell => track'[q] = reg'.val
    /\ (mode = "ret" /\ stack # << >> /\ Top.k = "copy")
           => \A q \in DOMAIN track : track[q] = Top.cell => track'[q] = reg'.val

C16_AliasUpdatesTracking == [][C16_Step]_vars

\* ------------------------------------------------------------------------
\* C17: structural sharing: when one tracked offset is the target of
\* several REFP, ALIAS or COPY tags of a body, all of them yield the very
\* same cell.  The cell under a tracked offset therefore never changes, a
\* REFP / ALIAS takes the cell found there, and the cell a COPY yields for
\* a tracked target is the cell found there.
\* ------------------------------------------------------------------------
C17_Step ==
    /\ \A q \in DOMAIN track : q \in DOMAIN track' /\ track'[q] = track[q]
    /\ (/\ mode = "call" /\ stack # << >> /\ Top.k = "copy"
        /\ read_tag(input, pos).ok /\ read_tag(input, pos).pos \in DOMAIN track)
           => reg'.cell = track[read_tag(input, pos).pos]
    /\ (mode = "ret" /\ stack = << >> /\ input = RefCopyRef)
           => LET arr == heap[heap[reg.val].r].items
              IN /\ heap[arr[2]].r = arr[1]
                 /\ heap[arr[4]].r = arr[1]
                 /\ arr[3] = arr[1]

C17_SharedOffsetsShareCells == [][C17_Step]_vars

\* ------------------------------------------------------------------------
\* Header reader (decoder/src/header.rs).  Header::read runs on the same
\* state: input is the frame, pos the position of the reader, mode the
\* statement it is at, reg its locals, log the buffers it allocates and
\* result what it returns.
\* ------------------------------------------------------------------------
MAGIC_V1 == 1819439933
MAGIC_V3 == 1819472701
PROTO_V2 == 2
PROTO_V3 == 3
PROTO_V4 == 4
TYPE_RAW == 0
TYPE_SNAPPY == 2
TYPE_ZLIB == 3
TYPE_ZSTD == 4
OPT_USER_METADATA == 1

\* the frames Header::read is run on: a magic, the version/type byte, a
\* suffix and what follows it, and frames cut short before the version byte
HeaderInputs ==
    LET magics == {<<61, 115, 114, 108>>, <<61, 243, 114, 108>>,
                   <<61, 109, 114, 108>>, <<61, 115, 114, 102>>}
        suffixes == {<< >>, <<0>>, <<1, 0>>, <<1, 1>>, <<2, 1, 0>>, <<2, 0, 7>>, <<2, 1>>,
                     <<3, 1, 7, 8>>, <<3, 0, 7, 8>>, <<3, 3, 7>>, <<193, 132, 61>>, <<128>>}
        tails == {<< >>, <<10>>, <<10, 11>>, <<128>>, <<128, 1, 11>>}
    IN {m \o <<v>> \o sfx \o t : m \in magics, v \in 0..255, sfx \in suffixes, t \in tails}
       \cup {<< >>, <<61>>, <<61, 115, 114>>, <<61, 115, 114, 108>>, <<61, 243, 114, 108>>}

\* the locals of Header::read
HReg0 == [magic |-> 0, version_type |-> 0, suffix_len |-> << >>, flags |-> 0,
          meta |-> [some |-> FALSE, bytes |-> << >>], proto |-> 0]

HeaderInit ==
    /\ input \in HeaderInputs
    /\ config \in Configs
    /\ builder = "arc"
    /\ pos = 0
    /\ track = << >>
    /\ copy_pos = 0
    /\ heap = << >>
    /\ stack = << >>
    /\ mode = "h_magic"
    /\ reg = HReg0
    /\ result = NoResult
    /\ log = << >>
    /\ reach = 0

\* return Err(..) and return Ok(Header {..})
HFail(kind, limit) ==
    /\ mode' = "done"
    /\ result' = [kind |-> "err", val |-> 0, err |-> Err(kind, << >>, limit)]
    /\ reg' = reg

HOk(doc) ==
    /\ mode' = "done"
    /\ result' = [kind |-> "ok", val |-> [doc_type |-> doc, metadata |-> reg.meta], err |-> NoErr]
    /\ reg' = reg

\* reader.read_varint()? : [ok, val, pos, limit]
h_read_varint(buf, p) ==
    LET r == cursor_read_varint(buf, p)
    IN [ok |-> r.ok, val |-> r.val, pos |-> p + r.len,
        limit |-> IF r.err = "Overflow" THEN 1 ELSE 0]

\* lines 80-84; how much of a rest shorter than what a read asks for is
\* consumed when the read fails is left open by io::Read
HReadMagic ==
    /\ mode = "h_magic"
    /\ IF Len(input) - pos < 4
       THEN HFail("IOError", 0) /\ pos' \in {pos, Len(input)}
       ELSE LET m == input[pos + 1] + 256 * input[pos + 2] + 65536 * input[pos + 3]
                     + 16777216 * input[pos + 4]
            IN /\ pos' = pos + 4
               /\ IF m = MAGIC_V1 \/ m = MAGIC_V3
                  THEN /\ mode' = "h_version"
                       /\ reg' = [reg EXCEPT !.magic = m]
                       /\ result' = result
                  ELSE HFail("InvalidMagic", 0)
    /\ UNCHANGED <<input, config, builder, track, copy_pos, heap, stack, log>>

\* line 86
HReadVersionType ==
    /\ mode = "h_version"
    /\ IF pos >= Len(input)
       THEN HFail("IOError", 0) /\ pos' = pos
       ELSE /\ pos' = pos + 1
            /\ mode' = "h_sufflen"
            /\ reg' = [reg EXCEPT !.version_type = input[pos + 1]]
            /\ result' = result
    /\ UNCHANGED <<input, config, builder, track, copy_pos, heap, stack, log>>

\* suffix_len > config.max_suffix_len() (line 89)
suffix_too_large_ge(len, cfg) == GtLimit(len, cfg.max_suffix_len - 1)

suffix_too_large(len, cfg) == GtLimit(len, cfg.max_suffix_len)

\* lines 88-91
HReadSuffixLen ==
    /\ mode = "h_sufflen"
    /\ LET r == h_read_varint(input, pos)
       IN /\ pos' = r.pos
          /\ IF ~r.ok
             THEN HFail("IOError", r.limit)
             ELSE IF suffix_too_large(r.val, config)
                  THEN HFail("SuffixTooLarge", 0)
                  ELSE /\ mode' = "h_suffix"
                       /\ reg' = [reg EXCEPT !.suffix_len = Norm(r.val)]
                       /\ result' = result
    /\ UNCHANGED <<input, config, builder, track, copy_pos, heap, stack, log>>

\* flags & OPT_USER_METADATA != 0 (line 107)
has_user_metadata(flags) == (flags \div OPT_USER_METADATA) % 2 = 1

\* lines 93-112; size is at most max_suffix_len here, which is below
\* usize::max_value() for every configuration of Configs (line 97)
HReadSuffix ==
    /\ mode = "h_suffix"
    /\ LET n == LimbsToNat(reg.suffix_len)
       IN IF n = 0
          THEN /\ mode' = "h_proto"
               /\ reg' = [reg EXCEPT !.meta = [some |-> FALSE, bytes |-> << >>]]
               /\ UNCHANGED <<pos, result, log>>
          ELSE IF pos >= Len(input)
               THEN HFail("IOError", 0) /\ UNCHANGED <<pos, log>>
               ELSE LET flags == input[pos + 1]
                        size == n - 1
                    IN /\ log' = Append(log, [op |-> "alloc", n |-> size])
                       /\ IF Len(input) - (pos + 1) < size
                          THEN HFail("IOError", 0) /\ pos' \in {pos + 1, Len(input)}
                          ELSE /\ pos' = pos + 1 + size
                               /\ mode' = "h_proto"
                               /\ result' = result
                               /\ reg' = [reg EXCEPT
                                            !.flags = flags,
                                            !.meta = IF has_user_metadata(flags)
                                                     THEN [some |-> TRUE,
                                                           bytes |-> SubSeq(input, pos + 2, pos + 1 + size)]
                                                     ELSE [some |-> FALSE, bytes |-> << >>]]
    /\ UNCHANGED <<input, config, builder, track, copy_pos, heap, stack>>

\* the match of lines 114-119: the protocol the pair selects, 0 when the
\* match falls to its last arm
proto_of(version_type, magic) ==
    LET p == version_type % 16
    IN IF p = PROTO_V2 /\ magic = MAGIC_V1 THEN p
       ELSE IF p = PROTO_V3 /\ magic = MAGIC_V3 THEN p
       ELSE IF p = PROTO_V4 /\ magic = MAGIC_V3 THEN p
       ELSE 0

\* lines 114-119
HMatchProto ==
    /\ mode = "h_proto"
    /\ LET p == proto_of(reg.version_type, reg.magic)
       IN IF p = 0
          THEN HFail("InvalidVersion", 0)
          ELSE /\ mode' = "h_doctype"
               /\ reg' = [reg EXCEPT !.proto = p]
               /\ result' = result
    /\ UNCHANGED <<input, config, builder, pos, track, copy_pos, heap, stack, log>>

\* the guards of the arms of lines 121-144
doc_type_allowed_any_proto(ty, proto) == ty \in {TYPE_RAW, TYPE_SNAPPY, TYPE_ZLIB, TYPE_ZSTD}

doc_type_allowed(ty, proto) ==
    \/ ty = TYPE_RAW
    \/ ty = TYPE_SNAPPY /\ proto >= PROTO_V2
    \/ ty = TYPE_ZLIB /\ proto >= PROTO_V3
    \/ ty = TYPE_ZSTD /\ proto >= PROTO_V4

\* DocumentType::ZLib of lines 129-136: a is the varint read first
zlib_doc_swapped(a, b) == [type |-> "ZLib", uncompressed_size |-> b, compressed_size |-> a]

zlib_doc(a, b) == [type |-> "ZLib", uncompressed_size |-> a, compressed_size |-> b]

\* lines 121-149
HMatchDocType ==
    /\ mode = "h_doctype"
    /\ LET ty == (reg.version_type \div 16) % 16
           a == h_read_varint(input, pos)
           b == h_read_varint(input, a.pos)
       IN IF ~doc_type_allowed(ty, reg.proto)
          THEN HFail("InvalidType", 0) /\ pos' = pos
          ELSE IF ty = TYPE_RAW
          THEN HOk([type |-> "Uncompressed"]) /\ pos' = pos
          ELSE IF ~a.ok
          THEN HFail("IOError", a.limit) /\ pos' = a.pos
          ELSE IF ty = TYPE_SNAPPY
          THEN HOk([type |-> "Snappy", compressed_size |-> Norm(a.val)]) /\ pos' = a.pos
          ELSE IF ty = TYPE_ZSTD
          THEN HOk([type |-> "ZStd", compressed_size |-> Norm(a.val)]) /\ pos' = a.pos
          ELSE IF ~b.ok
          THEN HFail("IOError", b.limit) /\ pos' = b.pos
          ELSE HOk(zlib_doc(Norm(a.val), Norm(b.val))) /\ pos' = b.pos
    /\ UNCHANGED <<input, config, builder, track, copy_pos, heap, stack, log>>

HeaderNext ==
    \/ (HReadMagic /\ Reached)
    \/ (HReadVersionType /\ Reached)
    \/ (HReadSuffixLen /\ Reached)
    \/ (HReadSuffix /\ Reached)
    \/ (HMatchProto /\ Reached)
    \/ (HMatchDocType /\ Reached)

HeaderSpec == HeaderInit /\ [][HeaderNext]_vars

\* ------------------------------------------------------------------------
\* Properties of the header reader
\* ------------------------------------------------------------------------
HDone == mode = "done"
HFailed(kind) == HDone /\ result.kind = "err" /\ result.err.kind = kind
HAccepted == HDone /\ result.kind = "ok"

\* C18: a frame of at least four bytes whose magic is neither "=srl" nor
\* "=\xF3rl" is refused with InvalidMagic, and a frame with an accepted magic
\* and a version byte whose protocol nibble does not go with the magic is
\* refused with InvalidVersion, whatever the document-type nibble and
\* whatever suffix follows the version byte.
C18_BadMagic ==
    /\ Len(input) >= 4
    /\ SubSeq(input, 1, 4) \notin {<<61, 115, 114, 108>>, <<61, 243, 114, 108>>}

C18_BadPair ==
    /\ Len(input) >= 5
    /\ LET p == input[5] % 16
       IN \/ SubSeq(input, 1, 4) = <<61, 115, 114, 108>> /\ p # 2
          \/ SubSeq(input, 1, 4) = <<61, 243, 114, 108>> /\ p \notin {3, 4}

C18_InvalidMagicAndVersion ==
    HDone => /\ C18_BadMagic => HFailed("InvalidMagic")
             /\ C18_BadPair => HFailed("InvalidVersion")

\* C19: once the magic, the version byte and the suffix of a frame with an
\* accepted (protocol, magic) pair have been read, document type RAW is
\* accepted for every protocol, SNAPPY for protocol 2 and later, ZLIB for
\* protocol 3 and later, ZSTD for protocol 4; the header is then returned
\* with that document type unless a size varint of the type is missing, and
\* every other document-type nibble is refused with InvalidType.
C19_Table == {<<0, 2>>, <<0, 3>>, <<0, 4>>, <<2, 2>>, <<2, 3>>, <<2, 4>>,
              <<3, 3>>, <<3, 4>>, <<4, 4>>}

C19_Name(ty) == CASE ty = 0 -> "Uncompressed" [] ty = 2 -> "Snappy"
                  [] ty = 3 -> "ZLib" [] ty = 4 -> "ZStd" [] OTHER -> ""

C20_Step ==
    /\ (mode = "h_sufflen" /\ cursor_read_varint(input, pos).ok) =>
          LET v == cursor_read_varint(input, pos)
              n == LimbsToNat(Norm(v.val))
              over == ~Small(v.val) \/ n > config.max_suffix_len
          IN IF over
             THEN /\ mode' = "done"
                  /\ result'.kind = "err" /\ result'.err.kind = "SuffixTooLarge"
                  /\ log' = log
                  /\ pos' = pos + v.len
             ELSE /\ mode' = "h_suffix"
                  /\ LimbsToNat(reg'.suffix_len) = n
    /\ (mode = "h_suffix" /\ mode' = "h_proto") =>
          LET n == LimbsToNat(reg.suffix_len)
          IN IF n = 0
             THEN pos' = pos /\ ~reg'.meta.some /\ log' = log
             ELSE /\ pos' = pos + n
                  /\ reg'.meta.some = (input[pos + 1] % 2 = 1)
                  /\ reg'.meta.some => reg'.meta.bytes = SubSeq(input, pos + 2, pos + n)
    /\ (mode = "h_doctype" /\ result'.kind = "ok") => result'.val.metadata = reg.meta

C20_SuffixAndMetadata == [][C20_Step]_vars

\* the frame of test version2, under the limit equal to its suffix length
C20_Version2Metadata ==
    /\ input = <<61, 115, 114, 108, 34, 2, 1, 0, 10>>
    /\ config = SmallConfig
    /\ HAccepted
    /\ result.val.metadata = [some |-> TRUE, bytes |-> <<0>>]
    /\ result.val.doc_type = [type |-> "Snappy", compressed_size |-> <<10>>]
    /\ pos = 9

\* C21: when Header::read returns a header, what it has consumed after the
\* suffix is nothing for an uncompressed document, exactly one varint, the
\* compressed size, for SNAPPY and for ZSTD, and exactly two varints for
\* ZLIB, the first being the uncompressed size and the second the
\* compressed size.
C21_Step ==
    (mode = "h_doctype" /\ result'.kind = "ok") =>
        LET ty == reg.version_type \div 16
            d == result'.val.doc_type
            a == cursor_read_varint(input, pos)
            b == cursor_read_varint(input, pos + a.len)
        IN CASE ty = 0 -> pos' = pos /\ DOMAIN d = {"type"}
             [] ty \in {2, 4} -> /\ a.ok /\ pos' = pos + a.len
                                 /\ DOMAIN d = {"type", "compressed_size"}
                                 /\ d.compressed_size = Norm(a.val)
             [] ty = 3 -> /\ a.ok /\ b.ok /\ pos' = pos + a.len + b.len
                          /\ d.uncompressed_size = Norm(a.val)
                          /\ d.compressed_size = Norm(b.val)
             [] OTHER -> FALSE

C21_SizeVarints == [][C21_Step]_vars

\* the frame of test version3: ZLib { uncompressed_size: 10, compressed_size: 11 }
C21_Version3Sizes ==
    /\ input = <<61, 243, 114, 108, 51, 2, 1, 0, 10, 11>>
    /\ HAccepted
    /\ result.val.doc_type = [type |-> "ZLib", uncompressed_size |-> <<10>>,
                              compressed_size |-> <<11>>]
    /\ pos = 10

\* ------------------------------------------------------------------------
\* The varint functions on their own (decoder/src/varint.rs): input is the
\* buffer handed to the function, result what it returns (val.fn names the
\* function, val.v is the value) and pos what it has consumed.
\* ------------------------------------------------------------------------
MaxVarintLen == 11

\* runs of k bytes with the continuation bit set, alone, closed by a byte
\* without it, or closed and followed by another byte
VarintInputs ==
    LET run(c, k) == [i \in 1..k |-> c]
        ends == {<< >>, <<0>>, <<1>>, <<2>>, <<3>>, <<4>>, <<127>>, <<0, 7>>, <<1, 128>>}
    IN {run(c, k) \o e : c \in {128, 129, 254, 255}, k \in 0..(MaxVarintLen - 1), e \in ends}
       \cup {run(128, MaxVarintLen), <<254>> \o run(255, 8) \o <<127>>,
             <<254>> \o run(255, 8) \o <<1>>, <<129, 128, 1>>, <<255, 129, 0>>}

VarintInit ==
    /\ input \in VarintInputs
    /\ config = DefaultConfig
    /\ builder = "arc"
    /\ pos = 0
    /\ track = << >>
    /\ copy_pos = 0
    /\ heap = << >>
    /\ stack = << >>
    /\ mode = "v_call"
    /\ reg = Reg0
    /\ result = NoResult
    /\ log = << >>
    /\ reach = 0

\* the call fn(input) returning r, whose value is v when it succeeds
VReturn(fn, r, v) ==
    /\ mode = "v_call"
    /\ mode' = "done"
    /\ pos' = r.len
    /\ result' = [kind |-> IF r.ok THEN "ok" ELSE "err",
                  val |-> [fn |-> fn, v |-> IF r.ok THEN v ELSE << >>],
                  err |-> IF r.ok THEN NoErr ELSE Err(r.err, << >>, 0)]
    /\ UNCHANGED <<input, config, builder, track, copy_pos, heap, stack, reg, log>>

\* Cursor::new(input).read_varint()
VReadVarint ==
    LET r == cursor_read_varint(input, 0) IN VReturn("read_varint", r, r.val)

\* Cursor::new(input).read_zigzag() (lines 35-38)
VReadZigzag ==
    LET r == cursor_read_varint(input, 0) IN VReturn("read_zigzag", r, straighten(r.val))

\* parse_varint(input)
VParseVarint ==
    LET r == parse_varint(input, 0) IN VReturn("parse_varint", r, r.val)

\* parse_zigzag(input) (lines 82-85)
VParseZigzag ==
    LET r == parse_varint(input, 0) IN VReturn("parse_zigzag", r, straighten(r.val))

VarintNext ==
    \/ (VReadVarint /\ Reached)
    \/ (VReadZigzag /\ Reached)
    \/ (VParseVarint /\ Reached)
    \/ (VParseZigzag /\ Reached)

VarintSpec == VarintInit /\ [][VarintNext]_vars

\* C22: reading a varint fails with an overflow error when the first ten
\* bytes all have the continuation bit set, the reader then having taken
\* ten bytes and no eleventh; it fails with UnexpectedEof when the input
\* ends after fewer than ten bytes that all have the bit set; and it never
\* fails when one of the first ten bytes has the bit clear.
C22_Run == CHOOSE k \in 0..Len(input) :
               /\ \A i \in 1..k : input[i] >= 128
               /\ k < Len(input) => input[k + 1] < 128

C22_VarintFailures ==
    mode = "done" =>
        IF C22_Run >= 10
        THEN /\ result.kind = "err" /\ result.err.kind = "Overflow"
             /\ result.val.fn \in {"read_varint", "read_zigzag"} => pos = 10
        ELSE IF C22_Run = Len(input)
        THEN result.kind = "err" /\ result.err.kind = "UnexpectedEof"
        ELSE result.kind = "ok"

\* eleven continuation bytes: the overflow is reported after the tenth
C22_OverflowAtTenth ==
    /\ Len(input) = 11 /\ C22_Run = 11
    /\ mode = "done"
    /\ result.val.fn = "read_varint"
    /\ result.err.kind = "Overflow"
    /\ pos = 10

\* C23: an accepted varint of n <= 10 bytes decodes to the sum of
\* (byte_i AND 0x7F) * 128^i modulo 2^64 and exactly n bytes are consumed;
\* trailing zero groups do not change the value (81 81 00 is 129, the
\* ten-byte zero is 0) and FF x 9 7F is 2^64 - 1.
C23_Groups(n) == [i \in 1..n |-> IF i = 10 THEN (input[i] % 128) % 2 ELSE input[i] % 128]

C23_Sum4(n) == LET b(i) == IF i <= n THEN input[i] % 128 ELSE 0
               IN b(1) + 128 * b(2) + 16384 * b(3) + 2097152 * b(4)

C23_VarintValue ==
    (mode = "done" /\ result.kind = "ok" /\ result.val.fn \in {"read_varint", "parse_varint"}) =>
        LET n == C22_Run + 1
            v == result.val.v
        IN /\ n <= 10
           /\ pos = n
           /\ v = Norm(C23_Groups(n))
           /\ n <= 4 => LimbsToNat(v) = C23_Sum4(n)
           /\ SubSeq(input, 1, n) = <<129, 129, 0>> => LimbsToNat(v) = 129
           /\ SubSeq(input, 1, n) = <<128, 128, 128, 128, 128, 128, 128, 128, 128, 0>> => v = << >>
           /\ SubSeq(input, 1, n) = <<255, 255, 255, 255, 255, 255, 255, 255, 255, 127>>
                 => v = <<127, 127, 127, 127, 127, 127, 127, 127, 127, 1>>

\* FF x 9 7F read through parse_varint: u64::MAX, ten bytes taken
C23_MaxDecoded ==
    /\ input = <<255, 255, 255, 255, 255, 255, 255, 255, 255, 127>>
    /\ mode = "done"
    /\ result.val.fn = "parse_varint"
    /\ result.kind = "ok"
    /\ result.val.v = MaxU64
    /\ pos = 10

\* C24: zig-zag decoding maps v to (v >> 1) XOR -(v AND 1) as an i64: even
\* v to v / 2, odd v to -(v + 1) / 2, so 0 -> 0, 1 -> -1, 2 -> 1,
\* 2^64 - 2 -> i64::MAX and 2^64 - 1 -> i64::MIN; the zig-zag encoding
\* (x << 1) XOR (x >> 63) of the decoded x is v again and decodes to x.
\* An i64 is [neg, m]: m when neg is FALSE and -m - 1 otherwise, and its
\* encoding is 2 * m + (1 if neg).
C24_Encode(x) ==
    LET p == Pad10(x.m)
    IN Norm([i \in 1..10 |-> ((2 * p[i]) % 128)
                             + (IF i = 1 THEN (IF x.neg THEN 1 ELSE 0) ELSE p[i - 1] \div 64)])

C24_I64Max == [i \in 1..9 |-> 127]

C24_ZigZag ==
    (mode = "done" /\ result.kind = "ok" /\ result.val.fn \in {"read_zigzag", "parse_zigzag"}) =>
        LET v == Norm(C23_Groups(C22_Run + 1))
            x == result.val.v
        IN /\ Len(x.m) <= 9
           /\ C24_Encode(x) = v
           /\ straighten(C24_Encode(x)) = x
           /\ Small(v) => /\ x.neg = (LimbsToNat(v) % 2 = 1)
                          /\ LimbsToNat(x.m) = LimbsToNat(v) \div 2
           /\ v = << >> => x = [neg |-> FALSE, m |-> << >>]
           /\ v = <<1>> => x = [neg |-> TRUE, m |-> << >>]
           /\ v = <<2>> => x = [neg |-> FALSE, m |-> <<1>>]
           /\ v = <<126, 127, 127, 127, 127, 127, 127, 127, 127, 1>>
                 => x = [neg |-> FALSE, m |-> C24_I64Max]
           /\ v = MaxU64 => x = [neg |-> TRUE, m |-> C24_I64Max]

\* FF x 9 7F read through read_zigzag: i64::MIN
C24_MinDecoded ==
    /\ input = <<255, 255, 255, 255, 255, 255, 255, 255, 255, 127>>
    /\ mode = "done"
    /\ result.val.fn = "read_zigzag"
    /\ result.val.v = [neg |-> TRUE, m |-> C24_I64Max]

\* C25: a successful Parser::parse has read the bytes of one top-level
\* value and nothing after them: the position it ends at is the highest the
\* reader has been at, so the bytes from that position on were not read (and
\* the position need not be the end of the buffer).
C25_OnlyTheValueIsRead == Ok => reach = pos

\* ------------------------------------------------------------------------
\* Serde adapter (decoder/src/de.rs) over Reader (decoder/src/reader.rs).
\* The Deserializer runs on the same state: input and pos are the Reader,
\* track is Deserializer.seen (the offsets being resolved), stack the
\* suspended deserialize_any / SeqAccess / MapAccess calls, reg.val the
\* value a visitor returned.  The visitor is the one that takes whatever it
\* is given and asks a sequence or a map for every element; the values are
\* <<"u8", n>>, <<"i8", n>>, <<"f32", bytes>>, <<"f64", bytes>>,
\* <<"bytes", b>>, <<"none">>, <<"some", v>>, <<"seq", items>> and
\* <<"map", pairs>>.
\* ------------------------------------------------------------------------
\* bodies of the tests of de.rs, and every body of up to MaxLen bytes over
\* the tags the adapter knows, offsets and one tag it does not know
DeInputs ==
    {<<1>>, <<67, 1, 2, 3>>, <<40, 43, 3, 1, 2, 3>>, <<82, 1, 2, 3, 4, 5>>,
     <<67, 1, 2, 67, 3, 4, 5>>, <<80>>, <<66, 40, 80, 37>>, <<66, 40, 208, 41, 3>>,
     <<66, 41, 1, 40, 80>>, <<66, 40, 80, 41, 1>>, <<67, 99, 102, 111, 111, 1, 2>>,
     <<66, 40, 208, 41, 0>>, <<66, 41, 4, 1, 2>>, <<67, 40, 1, 41, 3, 41, 3>>,
     <<67, 40, 98, 1, 41, 2, 41, 3>>, <<66, 38, 193, 132, 61, 1>>, <<34, 0, 0, 0, 0>>,
     <<43, 255, 255, 255, 255, 255, 255, 255, 255, 255, 127>>, <<41, 128>>,
     <<65, 41, 255, 255, 255, 255, 255, 255, 255, 255, 255, 1>>,
     <<32, 1>>, <<33, 1>>, <<58>>, <<59>>, <<66, 59, 58>>, <<42, 1, 97, 97, 1>>,
     <<67, 1, 41, 2, 41, 3>>, <<68, 1, 41, 2, 41, 3, 41, 5>>,
     <<31>>, <<16>>, <<35, 0, 0, 0, 0, 0, 0, 240, 63>>, <<35, 0>>, <<97, 97>>, <<97>>,
     <<38, 1, 97>>, <<38, 2, 97>>, <<39, 1, 97>>, <<65, 1>>, <<65>>, <<57>>,
     <<43, 193, 132, 61>>, <<38, 128, 128, 128, 128, 128, 128, 128, 128, 128, 128, 0>>}
    \cup UNION {[1..n -> {0, 1, 2, 3, 37, 40, 41, 43, 47, 63, 66, 81, 208}]
                    : n \in 0..MaxLen}

\* Deserializer::new and the call of T::deserialize(&mut de)
DeInit ==
    /\ input \in DeInputs
    /\ config = DefaultConfig
    /\ builder = "arc"
    /\ pos = 0
    /\ track = {}
    /\ copy_pos = 0
    /\ heap = << >>
    /\ stack = << >>
    /\ mode = "d_call"
    /\ reg = [Reg0 EXCEPT !.val = << >>]
    /\ result = [NoResult EXCEPT !.val = << >>]
    /\ log = << >>
    /\ reach = 0

\* Reader::read_varlen over Reader::read_varint (reader.rs 70-89) followed
\* by de.rs's From<reader::Error>, which turns VarintOverflow into
\* OffsetOverflow (de.rs 66-74)
reader_read_varlen(buf, p) ==
    IF p > Len(buf) THEN ReadPanic(p)
    ELSE LET r == parse_varint(buf, p)
         IN IF ~r.ok
            THEN ReadErr(p, Err(IF r.err = "Overflow" THEN "OffsetOverflow" ELSE r.err, <<>>, 0))
            ELSE IF r.val = MaxU64 THEN ReadErr(p + r.len, Err("OffsetOverflow", <<>>, 0))
            ELSE ReadOk(p + r.len, r.val)

\* a call returns a value, returns an error, panics, or calls the visitor,
\* which calls back
DeValue(v) == mode' = "d_ret" /\ reg' = [reg EXCEPT !.val = v] /\ result' = result
DeError(e) == mode' = "d_err" /\ reg' = [reg EXCEPT !.err = e] /\ result' = result
DeAbort(r) == IF r.st = "panic" THEN Panic(r.err) ELSE DeError(r.err)

\* p >= self.reader.pos() of line 131
refp_is_forward_gt(p, at) == p > at

refp_is_forward(p, at) == p >= at

\* a REFP arm that does not look at seen
refp_seen_never(p, seen) == FALSE

\* self.seen.contains(&p) of line 131
refp_seen(p, seen) == p \in seen

\* deserialize_any up to its call of the visitor (de.rs 95-158)
DeserializeAny ==
    /\ mode = "d_call"
    /\ LET t == read_tag(input, pos)
           tag == TagType(t.tag)
       IN IF ~t.ok
          THEN /\ DeError(Err("UnexpectedEof", <<>>, 0))
               /\ pos' = t.pos
               /\ UNCHANGED <<track, stack>>
          ELSE IF tag <= POS_15
          THEN DeValue(<<"u8", tag>>) /\ pos' = t.pos /\ UNCHANGED <<track, stack>>
          ELSE IF tag <= NEG_1
          THEN DeValue(<<"i8", (tag % 16) - 16>>) /\ pos' = t.pos /\ UNCHANGED <<track, stack>>
          ELSE IF tag \in {FLOAT, DOUBLE}
          THEN LET r == read_float(input, t.pos, IF tag = FLOAT THEN 4 ELSE 8)
               IN /\ IF r.st = "ok"
                     THEN DeValue(<<IF tag = FLOAT THEN "f32" ELSE "f64", r.val>>)
                     ELSE DeAbort(r)
                  /\ pos' = r.pos
                  /\ UNCHANGED <<track, stack>>
          ELSE IF tag \in {BINARY, STR_UTF8}
          THEN LET l == reader_read_varlen(input, t.pos)
                   r == read_bytes(input, l.pos, l.val)
               IN /\ IF l.st # "ok" THEN DeAbort(l) /\ pos' = l.pos
                     ELSE IF r.st # "ok" THEN DeAbort(r) /\ pos' = r.pos
                     ELSE DeValue(<<"bytes", r.val>>) /\ pos' = r.pos
                  /\ UNCHANGED <<track, stack>>
          ELSE IF tag >= SHORT_BINARY_0
          THEN LET r == read_bytes(input, t.pos, NatToLimbs(tag - SHORT_BINARY_0))
               IN /\ IF r.st # "ok" THEN DeAbort(r) ELSE DeValue(<<"bytes", r.val>>)
                  /\ pos' = r.pos
                  /\ UNCHANGED <<track, stack>>
          ELSE IF tag = ARRAY
          THEN LET c == parse_varint(input, t.pos)
               IN /\ pos' = IF c.ok THEN t.pos + c.len ELSE t.pos
                  /\ track' = track
                  /\ IF ~c.ok
                     THEN /\ DeError(Err(IF c.err = "Overflow" THEN "OffsetOverflow" ELSE c.err,
                                         <<>>, 0))
                          /\ stack' = stack
                     ELSE /\ mode' = "d_next" /\ reg' = reg /\ result' = result
                          /\ stack' = Append(stack, [Frame("seq") EXCEPT
                                 !.left = IF Small(c.val) THEN LimbsToNat(c.val) ELSE Far])
          ELSE IF tag >= ARRAYREF_0 /\ tag < HASHREF_0
          THEN /\ pos' = t.pos /\ track' = track
               /\ mode' = "d_next" /\ reg' = reg /\ result' = result
               /\ stack' = Append(stack, [Frame("seq") EXCEPT !.left = tag - ARRAYREF_0])
          ELSE IF tag \in {UNDEF, CANONICAL_UNDEF}
          THEN DeValue(<<"none">>) /\ pos' = t.pos /\ UNCHANGED <<track, stack>>
          ELSE IF tag = REFN
          THEN /\ pos' = t.pos /\ track' = track
               /\ mode' = "d_call" /\ reg' = reg /\ result' = result
               /\ stack' = Append(stack, Frame("some"))
          ELSE IF tag = REFP
          THEN LET l == reader_read_varlen(input, t.pos)
                   p == IF Small(l.val) THEN LimbsToNat(l.val) ELSE Far
               IN IF l.st # "ok"
                  THEN DeAbort(l) /\ pos' = l.pos /\ UNCHANGED <<track, stack>>
                  ELSE IF refp_seen(p, track) \/ refp_is_forward(p, l.pos)
                  THEN /\ DeError(Err("InvalidRef", l.val, 0))
                       /\ pos' = l.pos
                       /\ UNCHANGED <<track, stack>>
                  ELSE /\ track' = track \cup {p}
                       /\ IF p = 0
                          THEN \/ /\ Panic(Err("attempt to subtract with overflow", <<>>, 0))
                                  /\ pos' = l.pos
                                  /\ stack' = stack
                               \/ /\ pos' = Far
                                  /\ mode' = "d_call" /\ reg' = reg /\ result' = result
                                  /\ stack' = Append(stack, [Frame("refp") EXCEPT
                                                               !.a = p, !.ret_pos = l.pos])
                          ELSE /\ pos' = p - 1
                               /\ mode' = "d_call" /\ reg' = reg /\ result' = result
                               /\ stack' = Append(stack, [Frame("refp") EXCEPT
                                                            !.a = p, !.ret_pos = l.pos])
          ELSE IF tag >= HASHREF_0 /\ tag < SHORT_BINARY_0
          THEN /\ pos' = t.pos /\ track' = track
               /\ mode' = "d_next" /\ reg' = reg /\ result' = result
               /\ stack' = Append(stack, [Frame("map") EXCEPT !.left = tag - HASHREF_0])
          ELSE /\ Panic(Err("tag type not implemented yet", <<tag>>, 0))
               /\ pos' = t.pos
               /\ UNCHANGED <<track, stack>>
    /\ UNCHANGED <<input, config, builder, copy_pos, heap, log>>

\* SeqAccess::next_element_seed (de.rs 286-297), called by the visitor
\* until it answers None
DeNextElement ==
    /\ mode = "d_next" /\ Top.k = "seq"
    /\ IF Top.left = 0
       THEN DeValue(<<"seq", Top.items>>) /\ stack' = Pop
       ELSE /\ mode' = "d_call" /\ reg' = reg /\ result' = result
            /\ stack' = ReplaceTop([Top EXCEPT !.left = IF @ = Far THEN Far ELSE @ - 1])
    /\ UNCHANGED <<input, config, builder, pos, track, copy_pos, heap, log>>

\* Ok(Some(seed.deserialize(..)?)) of line 296
DeReturnElement ==
    /\ mode = "d_ret" /\ stack # << >> /\ Top.k = "seq"
    /\ mode' = "d_next" /\ reg' = reg /\ result' = result
    /\ stack' = ReplaceTop([Top EXCEPT !.items = Append(@, reg.val)])
    /\ UNCHANGED <<input, config, builder, pos, track, copy_pos, heap, log>>

\* MapAccess::next_key_seed (de.rs 317-328)
DeNextKey ==
    /\ mode = "d_next" /\ Top.k = "map"
    /\ IF Top.left = 0
       THEN DeValue(<<"map", Top.items>>) /\ stack' = Pop
       ELSE /\ mode' = "d_call" /\ reg' = reg /\ result' = result
            /\ stack' = ReplaceTop([Top EXCEPT !.left = @ - 1, !.a = 0])
    /\ UNCHANGED <<input, config, builder, pos, track, copy_pos, heap, log>>

\* the key is back and the visitor asks for its value:
\* MapAccess::next_value_seed (de.rs 330-332)
DeReturnKey ==
    /\ mode = "d_ret" /\ stack # << >> /\ Top.k = "map" /\ Top.a = 0
    /\ mode' = "d_call" /\ reg' = reg /\ result' = result
    /\ stack' = ReplaceTop([Top EXCEPT !.key = reg.val, !.a = 1])
    /\ UNCHANGED <<input, config, builder, pos, track, copy_pos, heap, log>>

DeReturnValue ==
    /\ mode = "d_ret" /\ stack # << >> /\ Top.k = "map" /\ Top.a = 1
    /\ mode' = "d_next" /\ reg' = reg /\ result' = result
    /\ stack' = ReplaceTop([Top EXCEPT !.items = Append(@, <<Top.key, reg.val>>), !.a = 0])
    /\ UNCHANGED <<input, config, builder, pos, track, copy_pos, heap, log>>

\* REFN => visitor.visit_some(self) has its value (line 126)
DeReturnSome ==
    /\ mode = "d_ret" /\ stack # << >> /\ Top.k = "some"
    /\ DeValue(<<"some", reg.val>>)
    /\ stack' = Pop
    /\ UNCHANGED <<input, config, builder, pos, track, copy_pos, heap, log>>

\* REFP after visit_some has returned, Ok or Err (lines 138-143)
DeReturnRefp ==
    /\ mode \in {"d_ret", "d_err"} /\ stack # << >> /\ Top.k = "refp"
    /\ pos' = Top.ret_pos
    /\ track' = track \ {Top.a}
    /\ stack' = Pop
    /\ IF mode = "d_ret" THEN DeValue(<<"some", reg.val>>)
       ELSE mode' = mode /\ reg' = reg /\ result' = result
    /\ UNCHANGED <<input, config, builder, copy_pos, heap, log>>

\* an error leaves a call that is not resolving a REFP (the ? operators)
DeUnwind ==
    /\ mode = "d_err" /\ stack # << >> /\ Top.k # "refp"
    /\ stack' = Pop
    /\ UNCHANGED <<input, config, builder, pos, track, copy_pos, heap, mode, reg, result, log>>

\* T::deserialize(&mut de) returns
DeFinish ==
    /\ mode \in {"d_ret", "d_err"} /\ stack = << >>
    /\ mode' = "done"
    /\ result' = IF mode = "d_ret" THEN [kind |-> "ok", val |-> reg.val, err |-> NoErr]
                 ELSE [kind |-> "err", val |-> << >>, err |-> reg.err]
    /\ UNCHANGED <<input, config, builder, pos, track, copy_pos, heap, stack, reg, log>>

DeNext ==
    \/ (DeserializeAny /\ Reached)
    \/ (DeNextElement /\ Reached)
    \/ (DeReturnElement /\ Reached)
    \/ (DeNextKey /\ Reached)
    \/ (DeReturnKey /\ Reached)
    \/ (DeReturnValue /\ Reached)
    \/ (DeReturnSome /\ Reached)
    \/ (DeReturnRefp /\ Reached)
    \/ (DeUnwind /\ Reached)
    \/ (DeFinish /\ Reached)

DeSpec == DeInit /\ [][DeNext]_vars

\* ------------------------------------------------------------------------
\* Properties of the Serde adapter
\* ------------------------------------------------------------------------
\* the REFP frames of the stack: the resolutions that have not finished
DeResolving == {stack[i].a : i \in {j \in 1..Len(stack) : stack[j].k = "refp"}}

\* deserialize_any is about to read a REFP tag whose offset varint is whole
DeAtRefp ==
    /\ mode = "d_call"
    /\ read_tag(input, pos).ok
    /\ TagType(read_tag(input, pos).tag) = REFP
    /\ OffsetAt(read_tag(input, pos).pos).ok
    /\ OffsetAt(read_tag(input, pos).pos).val # MaxU64

\* C26: in the adapter a REFP with offset p is refused with InvalidRef(p)
\* when p is an offset being resolved or when p is not below the read
\* position (the one after the offset varint); 42 29 01 28 50 and
\* 42 28 50 29 01 both fail with InvalidRef(1).
C26_Step ==
    DeAtRefp =>
        LET at == read_tag(input, pos).pos
            v == OffsetAt(at)
            after == at + v.len
        IN ((Small(v.val) /\ LimbsToNat(v.val) \in DeResolving)
            \/ ~Small(v.val) \/ LimbsToNat(v.val) >= after)
              => /\ mode' = "d_err"
                 /\ reg'.err = Err("InvalidRef", v.val, 0)
                 /\ stack' = stack /\ track' = track

C26_TestBodies ==
    (mode = "done" /\ input \in {<<66, 41, 1, 40, 80>>, <<66, 40, 80, 41, 1>>})
        => result.kind = "err" /\ result.err = Err("InvalidRef", <<1>>, 0)

C26_RefpRejected == [][C26_Step]_vars /\ []C26_TestBodies

\* 42 28 50 29 01: the REFP to offset 1 is met again while offset 1 is
\* being resolved
C26_CycleRefused ==
    /\ input = <<66, 40, 80, 41, 1>>
    /\ mode = "d_err"
    /\ reg.err = Err("InvalidRef", <<1>>, 0)
    /\ DeResolving = {1}
    /\ pos = 5

\* C27: in the adapter a REFP with offset p that is not refused seeks to
\* index p - 1 and visits one value with p in the active set and the
\* position after the offset varint saved; when the visit returns, with a
\* value or with an error, the position is the saved one and p has left the
\* active set; the active set is at all times the set of the offsets of the
\* resolutions that have not finished; 42 28 D0 29 03 decodes to a sequence
\* of two equal values.
C27_Step ==
    /\ (DeAtRefp /\ mode' # "d_err") =>
          LET at == read_tag(input, pos).pos
              v == OffsetAt(at)
          IN /\ mode' = "d_call"
             /\ pos' = LimbsToNat(v.val) - 1
             /\ Len(stack') = Len(stack) + 1
             /\ stack'[Len(stack')].k = "refp"
             /\ stack'[Len(stack')].a = LimbsToNat(v.val)
             /\ stack'[Len(stack')].ret_pos = at + v.len
             /\ track' = track \cup {LimbsToNat(v.val)}
    /\ (stack # << >> /\ Top.k = "refp" /\ mode \in {"d_ret", "d_err"}) =>
          /\ pos' = Top.ret_pos
          /\ Top.a \notin track'
          /\ stack' = Pop

C27_ActiveSet == track = DeResolving

C27_SharedBody ==
    (mode = "done" /\ input = <<66, 40, 208, 41, 3>>) =>
        /\ result.kind = "ok"
        /\ result.val = <<"seq", << <<"some", <<"map", << >> >> >>,
                                    <<"some", <<"map", << >> >> >> >> >>

C27_RefpScoped == [][C27_Step]_vars /\ [](C27_ActiveSet /\ C27_SharedBody)

\* C29: whatever Reader operations have run, those that returned an error
\* included, the cursor of the Reader is within its buffer:
\* 0 <= pos <= len(buffer).
C29_CursorWithinBuffer == pos >= 0 /\ pos <= Len(input)

\* C30: from one parser step to the next the read position does not
\* decrease, except at the seek that starts a COPY and at the restore that
\* ends it; the COPY that finishes, with a value or with an error, puts the
\* position back to the one saved after its offset varint; and a REFP, ALIAS or OBJECTV look-up moves the
\* position by its offset varint only.
C30_Step ==
    /\ pos' < pos => \/ /\ Len(stack') = Len(stack) + 1
                        /\ IsCopyFrame(stack'[Len(stack')])
                     \/ /\ stack # << >> /\ IsCopyFrame(Top) /\ stack' = Pop
                        /\ pos' = Top.ret_pos
    /\ (stack # << >> /\ IsCopyFrame(Top) /\ stack' = Pop) => pos' = Top.ret_pos
    /\ (/\ mode = "dispatch" /\ reg.tag \in {REFP, ALIAS, OBJECTV}
        /\ OffsetAt(pos).ok /\ mode' # "panic")
           => pos' = pos + OffsetAt(pos).len

C30_PositionOnlyAdvances == [][C30_Step]_vars

\* ------------------------------------------------------------------------
\* Frame orchestrator (decoder/src/lib.rs, parse).  It runs Header::read on
\* the frame and goes on from the state in which Header::read returned:
\* reg.features are the codec features the crate is built with, reg.buffer
\* is the body buffer, log records each codec call with the size of what it
\* allocates, and the step that builds the Parser leaves the state in which
\* Parser::parse starts.
\* ------------------------------------------------------------------------
\* frames with no suffix: both magics, a version byte, up to two size
\* varints (10, the limit 100000000, the limit plus one, 2^35) and a body
FrameInputs ==
    LET sizes == {<< >>, <<10>>, <<1>>, <<128, 194, 215, 47>>, <<129, 194, 215, 47>>,
                  <<128, 128, 128, 128, 128, 1>>}
        bodies == {<< >>, <<1>>, <<67, 1, 2, 3>>}
    IN {m \o <<v, 0>> \o a \o b \o body :
            m \in {<<61, 115, 114, 108>>, <<61, 243, 114, 108>>},
            v \in {2, 34, 50, 3, 35, 51, 4, 36, 52, 68, 19},
            a \in sizes, b \in sizes, body \in bodies}

FrameInit ==
    /\ input \in FrameInputs
    /\ config = DefaultConfig
    /\ builder = "arc"
    /\ pos = 0
    /\ track = << >>
    /\ copy_pos = 0
    /\ heap = << >>
    /\ stack = << >>
    /\ mode = "h_magic"
    /\ reg \in {[features |-> f, buffer |-> << >>] @@ HReg0 :
                   f \in SUBSET {"comp-snappy", "comp-zlib", "comp-zstd"}}
    /\ result = NoResult
    /\ log = << >>
    /\ reach = 0

\* compressed_size > config.max_compressed_size() and
\* uncompressed_size > config.max_uncompressed_size() (lines 118, 132, 139, 151)
body_too_large_ge(size, limit) == GtLimit(size, limit - 1)

body_too_large(size, limit) == GtLimit(size, limit)

\* parse from the return of Header::read to the body buffer (lines 108-162).
\* What a codec makes of the bytes it is given is outside this crate: it
\* fails or produces some body.
FrameReadBody ==
    /\ mode = "done"
    /\ LET d == result.val.doc_type
           fail(e) == /\ mode' = "f_done"
                      /\ result' = [kind |-> "err", val |-> 0, err |-> e]
                      /\ reg' = reg
           body(b) == /\ mode' = "f_parse"
                      /\ result' = result
                      /\ reg' = [reg EXCEPT !.buffer = b]
           rest == SubSeq(input, pos + 1, Len(input))
           decoded == {<<1>>, <<67, 1, 2, 3>>}
           feature == CASE d.type = "Snappy" -> "comp-snappy"
                        [] d.type = "ZLib" -> "comp-zlib"
                        [] d.type = "ZStd" -> "comp-zstd"
                        [] OTHER -> ""
       IN IF result.kind = "err"
          THEN fail(Err("Header", <<>>, 0)) /\ UNCHANGED <<pos, log>>
          ELSE IF d.type = "Uncompressed"
          THEN body(rest) /\ pos' = Len(input) /\ log' = log
          ELSE IF feature \notin reg.features
          THEN fail(Err("UnsupportedType", <<>>, 0)) /\ UNCHANGED <<pos, log>>
          ELSE IF body_too_large(d.compressed_size, config.max_compressed_size)
          THEN /\ fail(Err("BodyTooLarge", d.compressed_size, config.max_compressed_size))
               /\ UNCHANGED <<pos, log>>
          ELSE IF d.type = "ZLib"
                  /\ body_too_large(d.uncompressed_size, config.max_uncompressed_size)
          THEN /\ fail(Err("BodyTooLarge", d.uncompressed_size, config.max_uncompressed_size))
               /\ UNCHANGED <<pos, log>>
          ELSE LET comp == LimbsToNat(d.compressed_size)
                   alloc == IF d.type = "Snappy" THEN comp
                            ELSE IF d.type = "ZLib" THEN LimbsToNat(d.uncompressed_size)
                            ELSE 0
               IN /\ log' = Append(log, [op |-> feature, n |-> alloc])
                  /\ IF d.type = "Snappy" /\ Len(rest) < comp
                     THEN fail(Err("IO", <<>>, 0)) /\ pos' \in {pos, Len(input)}
                     ELSE /\ pos' = IF Len(rest) < comp THEN Len(input) ELSE pos + comp
                          /\ \E out \in decoded \cup {<< >>} :
                                IF out = << >> THEN fail(Err("IO", <<>>, 0)) ELSE body(out)
    /\ UNCHANGED <<input, config, builder, track, copy_pos, heap, stack>>

\* Parser::new(builder, &config, buffer), after which parser.parse() runs
\* (lines 164-165)
FrameParse ==
    /\ mode = "f_parse"
    /\ input' = reg.buffer
    /\ pos' = 0
    /\ mode' = "call"
    /\ reg' = Reg0
    /\ log' = Append(log, [op |-> "Parser::new", n |-> Len(reg.buffer)])
    /\ UNCHANGED <<config, builder, track, copy_pos, heap, stack, result>>

FrameNext ==
    \/ (HReadMagic /\ Reached)
    \/ (HReadVersionType /\ Reached)
    \/ (HReadSuffixLen /\ Reached)
    \/ (HReadSuffix /\ Reached)
    \/ (HMatchProto /\ Reached)
    \/ (HMatchDocType /\ Reached)
    \/ (FrameReadBody /\ Reached)
    \/ (FrameParse /\ Reached)

FrameSpec == FrameInit /\ [][FrameNext]_vars

\* C28: when the header of a SNAPPY, ZLIB or ZSTD frame (its codec compiled
\* in) declares a compressed size above max_compressed_size, or a ZLIB
\* header an uncompressed size above max_uncompressed_size, parse returns
\* BodyTooLarge with that size and that limit, having called no codec,
\* allocated nothing and read nothing more, and the parser is not started;
\* sizes within the limits are not refused as too large.
C28_Above(size) == ~Small(size) \/ LimbsToNat(size) > 100000000

C28_Step ==
    (/\ mode = "done" /\ result.kind = "ok"
     /\ \/ result.val.doc_type.type = "Snappy" /\ "comp-snappy" \in reg.features
        \/ result.val.doc_type.type = "ZLib" /\ "comp-zlib" \in reg.features
        \/ result.val.doc_type.type = "ZStd" /\ "comp-zstd" \in reg.features) =>
        LET d == result.val.doc_type
            refused(size) == /\ mode' = "f_done"
                             /\ result'.err = Err("BodyTooLarge", size, 100000000)
                             /\ log' = log /\ pos' = pos /\ reg'.buffer = << >>
        IN IF C28_Above(d.compressed_size) THEN refused(d.compressed_size)
           ELSE IF d.type = "ZLib" /\ C28_Above(d.uncompressed_size)
           THEN refused(d.uncompressed_size)
           ELSE /\ Len(log') = Len(log) + 1
                /\ mode' = "f_done" => result'.err.kind = "IO"

C28_ParserAfterBody ==
    mode = "call" => /\ log # << >> /\ log[Len(log)].op = "Parser::new"
                     /\ \A i \in 1..Len(log) : log[i].n <= 100000000

C28_BodyTooLarge == [][C28_Step]_vars /\ []C28_ParserAfterBody

\* a SNAPPY frame that declares 100000001 compressed bytes
C28_SnappyRefused ==
    /\ input = <<61, 243, 114, 108, 35, 0, 129, 194, 215, 47, 1>>
    /\ mode = "f_done"
    /\ result.err = Err("BodyTooLarge", <<1, 66, 87, 47>>, 100000000)
    /\ log = << >>
    /\ pos = 10

\* ------------------------------------------------------------------------
\* One body parsed twice (decoder/src/parser.rs, Parser::new 106-116 and
\* Parser::parse 118-120): as it is and then, by a new Parser with the same
\* Builder and Config, with PAD bytes inserted in front of tags.  reg.run
\* counts the runs, reg.first is what the first run returned and reg.orig
\* the body it was given.
\* ------------------------------------------------------------------------
\* the bodies that are parsed twice.  free: every body of up to MaxLen
\* tags that have no payload byte, in which every byte is a tag.  sites:
\* bodies with payloads and back-references, at holding the indices of tag
\* bytes that lie behind every offset the body refers to (Len: the end)
PadBodies ==
    [free |-> UNION {[1..n -> {1, 37, 40, 49, 65, 66, 81, 96, 129}] : n \in 0..MaxLen},
     sites |-> {
        [s |-> SelfRef, at |-> {2}],
        [s |-> <<66, 129, 41, 2>>, at |-> {2, 4}],
        [s |-> <<66, 1, 47, 2>>, at |-> {2, 4}],
        [s |-> ObjectsBody, at |-> {6, 7, 9, 11, 12}],
        [s |-> HashBody, at |-> {0, 2, 6, 10, 15}],
        [s |-> <<32, 128, 1>>, at |-> {0}],
        [s |-> <<38, 2, 97, 98>>, at |-> {0}],
        [s |-> <<34, 0, 0, 128, 63>>, at |-> {0, 5}],
        [s |-> <<43, 2, 0, 0>>, at |-> {0, 2, 3}],
        [s |-> <<42, 1, 99, 102, 111, 111, 42, 0>>, at |-> {0, 2, 6}],
        [s |-> RefCopyRef, at |-> {2, 4, 6}],
        [s |-> CopyComplex, at |-> {3, 5}],
        [s |-> CopyHashKey, at |-> {4, 6, 7}],
        [s |-> RefToAlias, at |-> {4}],
        [s |-> <<40, 171, 1, 40, 43, 1, 41, 2>>, at |-> {3, 4, 6}]}]

\* the padded forms of a body: a run of PAD bytes, with or without the
\* track bit, put in front of one tag
Paddings(s) ==
    LET runs == {<<PAD>>, <<PAD + TRACK_BIT>>, <<PAD, PAD + TRACK_BIT>>}
        insert(i, r) == SubSeq(s, 1, i) \o r \o SubSeq(s, i + 1, Len(s))
    IN IF s \in PadBodies.free
       THEN {insert(i, r) : i \in 0..Len(s), r \in runs}
       ELSE UNION {{insert(i, r) : i \in e.at, r \in runs} :
                      e \in {x \in PadBodies.sites : x.s = s}}

PadInputs == Corpus \cup PadBodies.free \cup {e.s : e \in PadBodies.sites}

PadInit ==
    /\ input \in PadInputs
    /\ config \in Configs
    /\ builder \in Builders
    /\ pos = 0
    /\ track = << >>
    /\ copy_pos = 0
    /\ heap = << >>
    /\ stack = << >>
    /\ mode = "call"
    /\ reg = [run |-> 1, first |-> NoResult, orig |-> << >>] @@ Reg0
    /\ result = NoResult
    /\ log = << >>
    /\ reach = 0

\* Parser::new over a padded form of the body, and the call of parse; the
\* cells of the first run stay where they are
PadAgain ==
    /\ mode = "done" /\ reg.run = 1
    /\ input' \in Paddings(input)
    /\ pos' = 0
    /\ track' = << >>
    /\ copy_pos' = 0
    /\ stack' = << >>
    /\ mode' = "call"
    /\ reg' = [run |-> 2, first |-> result, orig |-> input] @@ Reg0
    /\ result' = NoResult
    /\ UNCHANGED <<config, builder, heap, log>>

PadNext ==
    \/ Next
    \/ (PadAgain /\ Reached)

PadSpec == PadInit /\ [][PadNext]_vars

\* C31: read_tag (in parse_inner and in parse_str) passes over every byte
\* whose low seven bits are 0x3F and takes the first other byte as the tag,
\* failing with UnexpectedEof when there is none; a cell that is tracked is
\* entered under the 1-based position of that tag byte and under no other
\* key; and a body that parsed to a value parses, with PAD bytes inserted
\* in front of tags behind every offset it refers to, to an equal value.
C31_TagIndex(p) ==
    IF \E q \in (p + 1)..Len(input) : input[q] % 128 # 63
    THEN CHOOSE q \in (p + 1)..Len(input) :
             /\ input[q] % 128 # 63
             /\ \A j \in (p + 1)..(q - 1) : input[j] % 128 = 63
    ELSE 0

C31_Step ==
    LET q == C31_TagIndex(pos)
    IN /\ mode = "call" =>
             IF q = 0
             THEN mode' = "err" /\ reg'.err.kind = "UnexpectedEof" /\ track' = track
             ELSE /\ pos' = q
                  /\ mode' = "dispatch"
                  /\ reg'.tag = input[q] % 128
                  /\ (input[q] >= 128 \/ reg.force) =>
                        q \in DOMAIN track' /\ track'[q] = reg'.cell /\ reg'.cell = Len(heap')
                  /\ \A k \in DOMAIN track' :
                        k # q => k \in DOMAIN track /\ track'[k] = track[k]
                  /\ ~(input[q] >= 128 \/ reg.force) => track' = track
       /\ mode = "callstr" =>
             /\ track' = track
             /\ IF q = 0 THEN mode' = "err" /\ reg'.err.kind = "UnexpectedEof"
                ELSE LET t == input[q] % 128
                     IN /\ (t >= 96 /\ mode' = "retstr") =>
                              reg'.key = SubSeq(input, q + 1, q + t - 96) /\ pos' = q + t - 96
                        /\ (t < 96 /\ t \notin {BINARY, STR_UTF8, COPY}) =>
                              mode' = "err" /\ reg'.err.kind = "InvalidType" /\ pos' = q

C31_SameGraph ==
    (mode = "done" /\ reg.run = 2 /\ reg.first.kind = "ok") =>
        /\ result.kind = "ok"
        /\ Tree(heap, result.val, MaxDepth) = Tree(heap, reg.first.val, MaxDepth)

C31_PadInsensitive == [][C31_Step]_vars /\ []C31_SameGraph

C31_PaddedRefDecoded ==
    /\ reg.run = 2
    /\ reg.orig = <<66, 129, 41, 2>>
    /\ input = <<66, 129, 63, 191, 41, 2>>
    /\ mode = "done" /\ result.kind = "ok"
    /\ track = (2 :> reg.first.val + 5)
    /\ Tree(heap, result.val, 4) =
          <<"Ref", <<"Array", <<(<<"U64", <<1>>>>), (<<"Ref", <<"U64", <<1>>>>>>)>>>>>>

\* C32: with the arc and with the arena Builder, set_object /
\* set_object_freeze (OBJECT, OBJECTV, OBJECT_FREEZE, OBJECTV_FREEZE) given
\* a class cell that does not hold a string, and set_regexp given a pattern
\* or a flags cell that does not hold a string, fail with InvalidType, and
\* an InvalidType raised there is what Parser::parse returns.
C32_Step ==
    /\ (mode = "ret" /\ stack # << >> /\ Top.k = "objbody" /\ heap[Top.a].t # "String") =>
           mode' = "err" /\ reg'.err.kind = "InvalidType" /\ heap' = heap
    /\ (/\ mode = "ret" /\ stack # << >> /\ Top.k = "rxflags"
        /\ (heap[Top.a].t # "String" \/ heap[reg.val].t # "String")) =>
           mode' = "err" /\ reg'.err.kind = "InvalidType" /\ heap' = heap
    /\ (mode = "err" /\ reg.err.kind = "InvalidType") =>
           /\ mode' \in {"err", "done"} /\ reg' = reg
           /\ mode' = "done" => result'.kind = "err" /\ result'.err.kind = "InvalidType"

C32_ClassMustBeString == [][C32_Step]_vars

\* C33: for a body of tags the parser accepts without back-references
\* (scalars, VARINT, ZIGZAG, FLOAT, DOUBLE, strings, REFN, WEAKEN, ARRAY,
\* HASH, ARRAYREF_k, HASHREF_k, OBJECT, OBJECT_FREEZE, REGEXP),
\* deserialize_any goes on to a visitor event or returns an error: it does
\* not panic.
C33_ParserTag(t) ==
    \/ IsScalarTag(t) \/ IsStrTag(t)
    \/ t \in {VARINT, ZIGZAG, FLOAT, DOUBLE, REFN, WEAKEN, ARRAY, HASH,
              OBJECT, OBJECT_FREEZE, REGEXP}
    \/ (t >= ARRAYREF_0 /\ t <= HASHREF_15)

C33_Step ==
    (/\ mode = "d_call" /\ pos <= Len(input)
     /\ read_tag(input, pos).ok
     /\ C33_ParserTag(TagType(read_tag(input, pos).tag))) =>
        mode' # "panic"

C33_ParserTagsNeverAbort == [][C33_Step]_vars

\* C40: a varint that overflows while the adapter reads it through the
\* Reader (the count of ARRAY, the length of BINARY / STR_UTF8, the offset
\* of REFP) makes deserialize_any return VarintOverflow; a varint cut short
\* gives UnexpectedEof and the offset 2^64 - 1 gives OffsetOverflow.
C40_Step ==
    (/\ mode = "d_call" /\ pos <= Len(input)
     /\ read_tag(input, pos).ok
     /\ TagType(read_tag(input, pos).tag) \in {ARRAY, BINARY, STR_UTF8, REFP}) =>
        LET at == read_tag(input, pos).pos
            v == parse_varint(input, at)
            tag == TagType(read_tag(input, pos).tag)
        IN /\ (~v.ok /\ v.err = "Overflow") =>
                 mode' = "d_err" /\ reg'.err.kind = "VarintOverflow"
           /\ (~v.ok /\ v.err = "UnexpectedEof") =>
                 mode' = "d_err" /\ reg'.err.kind = "UnexpectedEof"
           /\ (v.ok /\ v.val = MaxU64 /\ tag # ARRAY) =>
                 mode' = "d_err" /\ reg'.err.kind = "OffsetOverflow"

C40_ErrorKindsKept == [][C40_Step]_vars

\* C34: the calls of parse_inner / parse_str that are active at once are
\* bounded by the nesting the input can hold: never more than two per input
\* byte (each byte parsed at most once in place and once through a COPY).
C34_DepthBounded == Len(stack) <= 2 * Len(input)

\* ------------------------------------------------------------------------
\* The adapter as a running program: a call that can take a step takes it
\* ------------------------------------------------------------------------
DeLive == DeSpec /\ WF_vars(DeNext)

\* C35: every REFP resolution the adapter enters adds to the active set an
\* offset that is not in it and is smaller than the buffer length; the
\* resolutions in progress have pairwise distinct offsets, so there are
\* never more of them than the buffer has bytes; and every run of
\* T::deserialize comes to an end.
C35_Refps == {j \in 1..Len(stack) : stack[j].k = "refp"}

C35_Step ==
    (Len(stack') = Len(stack) + 1 /\ stack'[Len(stack')].k = "refp") =>
        LET p == stack'[Len(stack')].a
        IN /\ p \notin track /\ p \notin DeResolving
           /\ p >= 0 /\ p < Len(input)
           /\ track' = track \cup {p}

C35_Nesting ==
    /\ \A i, j \in C35_Refps : i # j => stack[i].a # stack[j].a
    /\ \A i \in C35_Refps : stack[i].a < Len(input)
    /\ Cardinality(C35_Refps) <= Len(input)
    /\ Cardinality(track) <= Len(input)

C35_Ends == <>(mode \in {"done", "panic"})

C35_AdapterTerminates == [][C35_Step]_vars /\ []C35_Nesting /\ C35_Ends

C35_NestedResolutions ==
    /\ input = <<68, 1, 41, 2, 41, 3, 41, 5>>
    /\ track = {2, 3, 5}
    /\ Cardinality(C35_Refps) = 3
    /\ mode = "d_ret"
    /\ pos = 2

\* C36: a COPY whose tag is at index c and whose offset p has p - 1 >= c
\* (the COPY itself, or bytes not read yet) never gets a value back from
\* the parse it starts at p - 1: nothing at or after c is taken as the copy.
C36_CopyOnlyBackwards ==
    ~(/\ mode \in {"ret", "retstr"} /\ stack # << >>
      /\ IsCopyFrame(Top)
      /\ Top.a >= Top.left)

\* C37: a COPY with offset 0 is answered with an error: the parser neither
\* panics nor seeks to 0 - 1 taken in usize.
C37_Step ==
    (/\ mode = "dispatch" /\ reg.tag = COPY /\ ~copy_in_progress(copy_pos)
     /\ OffsetAt(pos).ok /\ OffsetAt(pos).val = << >>) =>
        /\ mode' = "err"
        /\ pos' <= Len(input)
        /\ stack' = stack

C37_OffsetZeroRefused == [][C37_Step]_vars

\* C38: an entry of the tracking table never changes once it is made, the
\* parse of a COPY's target included, and a REFP or an ALIAS of a tracked
\* offset takes the cell that is entered there.
C38_Step ==
    /\ \A q \in DOMAIN track :
          /\ q \in DOMAIN track'
          /\ CopiesInProgress # {} => track'[q] = track[q]
          /\ CopiesInProgress = {} => track'[q] = track[q]
    /\ (/\ mode = "dispatch" /\ reg.tag \in {REFP, ALIAS}
        /\ OffsetAt(pos).ok /\ Small(OffsetAt(pos).val)
        /\ LimbsToNat(OffsetAt(pos).val) \in DOMAIN track) =>
           LET c == track[LimbsToNat(OffsetAt(pos).val)]
           IN /\ mode' = "ret"
              /\ reg.tag = REFP => heap'[reg'.val].r = c
              /\ reg.tag = ALIAS => reg'.val = c

C38_TrackingIsStable == [][C38_Step]_vars

\* C39: for a count within the limit parse_array calls build_array(count)
\* without a failure inside the builder, inserts the children in stream
\* order, exactly count of them, and finalizes; ARRAYREF_0 and ARRAY with
\* count 0 give an empty array.
C39_Count ==
    IF reg.tag = ARRAY THEN OffsetAt(pos) ELSE [ok |-> TRUE, val |-> NatToLimbs(reg.tag - ARRAYREF_0)]

C39_Step ==
    /\ (/\ mode = "dispatch"
        /\ reg.tag = ARRAY \/ (reg.tag >= ARRAYREF_0 /\ reg.tag <= ARRAYREF_15)
        /\ C39_Count.ok /\ Small(C39_Count.val)
        /\ LimbsToNat(C39_Count.val) <= config.max_array_size) =>
           LET n == LimbsToNat(C39_Count.val)
           IN /\ mode' # "panic"
              /\ log' = Append(log, [op |-> "build_array", n |-> n])
              /\ n = 0 =>
                    /\ mode' = "ret"
                    /\ LET c == heap'[reg'.val]
                       IN IF reg.tag = ARRAY THEN c = set_array(<< >>)
                          ELSE c.t = "Ref" /\ heap'[c.r] = set_array(<< >>)
              /\ n > 0 => mode' \in {"call", "deep"} /\ (mode' = "call" => stack'[Len(stack')].left = n)
    /\ (mode = "ret" /\ stack # << >> /\ Top.k = "array") =>
           /\ Top.left > 0
           /\ IF Top.left = 1
              THEN /\ mode' = "ret"
                   /\ LET c == heap'[reg'.val]
                          a == IF Top.isref THEN heap'[c.r] ELSE c
                      IN a = set_array(Append(Top.items, reg.val))
              ELSE /\ mode' = "call"
                   /\ stack'[Len(stack')].items = Append(Top.items, reg.val)
                   /\ stack'[Len(stack')].left = Top.left - 1

C39_ArraysOfEveryCount == [][C39_Step]_vars

====
